---------------------------- MODULE Spec2Model ----------------------------
(***************************************************************************)
(* Model of the background script of paste-links (src/content.js, lines    *)
(* 2977-4103): the title cache, the per-service authentication state, the  *)
(* fetchJiraTitle / fetchAsanaTitle message handlers with their tiered     *)
(* fetch chains, openAuthTab, retryPendingTasks and the tabs.onUpdated     *)
(* listener.                                                               *)
(*                                                                         *)
(* Strings are sequences of tokens.  A token is a piece of text that the   *)
(* code's string operations never split: the protocol "https://", a host   *)
(* name, a path marker such as "/browse/", an issue key, a blank, a colon, *)
(* a run of words.  includes / replace / trim / the regular expressions of *)
(* the code are computed on these sequences as the code computes them on   *)
(* characters.                                                             *)
(***************************************************************************)
EXTENDS Integers, Sequences, FiniteSets, Bags, TLC

-----------------------------------------------------------------------------
(* JavaScript values *)

\* null / undefined, as a string value
Null == << "<null>" >>

\* !x for a string-or-null x : null and "" are falsy
Falsy(s) == s = Null \/ s = << >>

-----------------------------------------------------------------------------
(* String primitives (String.prototype.includes, replace, trim, regex heads) *)

\* s.indexOf(sub) + 1, 0 when absent
IndexOf(s, sub) ==
    LET hits == { i \in 1..(Len(s) - Len(sub) + 1) : SubSeq(s, i, i + Len(sub) - 1) = sub }
    IN  IF hits = {} THEN 0 ELSE CHOOSE i \in hits : \A j \in hits : i <= j

\* s.includes(sub)
Includes(s, sub) == IndexOf(s, sub) # 0

\* s.replace(sub, rep) with a string pattern: the FIRST occurrence only
ReplaceFirst(s, sub, rep) ==
    LET i == IndexOf(s, sub)
    IN  IF i = 0 THEN s
        ELSE SubSeq(s, 1, i - 1) \o rep \o SubSeq(s, i + Len(sub), Len(s))

IsSpace(t) == t = " "

\* number of leading tokens of s that lie in the set cls
RECURSIVE LeadLen(_, _)
LeadLen(s, cls) ==
    IF s = << >> \/ Head(s) \notin cls THEN 0 ELSE 1 + LeadLen(Tail(s), cls)

\* number of trailing tokens of s that lie in the set cls
RECURSIVE TrailLen(_, _)
TrailLen(s, cls) ==
    IF s = << >> \/ s[Len(s)] \notin cls THEN 0
    ELSE 1 + TrailLen(SubSeq(s, 1, Len(s) - 1), cls)

\* s.trim()
Trim(s) ==
    LET a == LeadLen(s, {" "})
        t == SubSeq(s, a + 1, Len(s))
    IN  SubSeq(t, 1, Len(t) - TrailLen(t, {" "}))

\* s.replace(/^[\s:]+/, '')
StripLead(s) == SubSeq(s, LeadLen(s, {" ", ":"}) + 1, Len(s))

-----------------------------------------------------------------------------
(* Issue keys *)

\* tokens matching [A-Z]+-\d+ (upper case)
UpperKeys == { "ABC-1", "XYZ-9" }

\* x.toLowerCase() on a token: only issue keys have a distinct lower-case form
Lower(t) ==
    CASE t = "ABC-1" -> "abc-1"
      [] t = "XYZ-9" -> "xyz-9"
      [] OTHER -> t

\* tokens matching [A-Z]+-\d+ under the i flag
AnyCaseKeys == UpperKeys \cup { Lower(k) : k \in UpperKeys }

\* tokens that begin with "?" , and tokens that begin with "/"
QueryToks == { "?x=1", "?selectedIssue=", "?q" }
SlashToks == { "/browse/", "/issues/", "/item/", "/task/", "/", "/f", "/0/", "/home" }

\* url.match(/[?&]selectedIssue=([A-Z]+-\d+)/i)
SelectedIssueHits(url) ==
    { i \in 1..(Len(url) - 1) : url[i] = "?selectedIssue=" /\ url[i + 1] \in AnyCaseKeys }

\* url.match(/\/(?:browse|issues)\/([A-Z]+-\d+)(?:\?|$|\/)/)
PathKeyHits(url) ==
    { i \in 1..(Len(url) - 1) :
        /\ url[i] \in { "/browse/", "/issues/" }
        /\ url[i + 1] \in UpperKeys
        /\ (i + 1 = Len(url) \/ url[i + 2] \in QueryToks \cup SlashToks) }

\* url.match(/([A-Z]+-\d+)/)
SimpleKeyHits(url) == { i \in 1..Len(url) : url[i] \in UpperKeys }

Least(S) == CHOOSE i \in S : \A j \in S : i <= j

\* a faulty variant of extractIssueKeyFromUrl: the path is looked at before the query
extractIssueKeyFromUrlPathFirst(url) ==
    IF PathKeyHits(url) # {} THEN << url[Least(PathKeyHits(url)) + 1] >>
    ELSE IF SelectedIssueHits(url) # {} THEN << url[Least(SelectedIssueHits(url)) + 1] >>
    ELSE IF SimpleKeyHits(url) # {} THEN << url[Least(SimpleKeyHits(url))] >>
    ELSE Null

extractIssueKeyFromUrl(url) ==
    IF SelectedIssueHits(url) # {} THEN << url[Least(SelectedIssueHits(url)) + 1] >>
    ELSE IF PathKeyHits(url) # {} THEN << url[Least(PathKeyHits(url)) + 1] >>
    ELSE IF SimpleKeyHits(url) # {} THEN << url[Least(SimpleKeyHits(url))] >>
    ELSE Null

\* `${urlObj.protocol}//${urlObj.hostname}` of new URL(url)
Origin(url) == SubSeq(url, 1, 2)

normalizeJiraUrl(url) ==
    LET issueKey == extractIssueKeyFromUrl(url)
    IN  IF Falsy(url) THEN url
        ELSE IF issueKey = Null THEN url
        ELSE IF Includes(url, << "/browse/" >>) THEN Origin(url) \o << "/browse/" >> \o issueKey
        ELSE IF Includes(url, << "/issues/" >>) THEN Origin(url) \o << "/issues/" >> \o issueKey
        ELSE url

-----------------------------------------------------------------------------
(* cleanTitle *)

\* url.replace(/^https?:\/\//, '')
DomainPart(url) ==
    IF url # << >> /\ Head(url) \in { "https://", "http://" } THEN Tail(url) ELSE url

\* length of the leftmost match of new RegExp(`${key}\\s*${key}`, 'i') at position i, 0 if none
DoubleKeyAt(s, key, i) ==
    IF i > Len(s) \/ Lower(s[i]) # Lower(key[1]) THEN 0
    ELSE LET sp == LeadLen(SubSeq(s, i + 1, Len(s)), {" "})
             \* \s* is greedy and backtracks: the second key follows sp' <= sp blanks,
             \* and after a run of blanks only sp' = sp can put a key there
         IN  IF i + sp + 1 <= Len(s) /\ Lower(s[i + sp + 1]) = Lower(key[1])
             THEN sp + 2 ELSE 0

\* title.replace(doubleKeyPattern, issueKey): the leftmost match only
CollapseDoubleKey(s, key) ==
    LET hits == { i \in 1..Len(s) : DoubleKeyAt(s, key, i) # 0 }
    IN  IF hits = {} THEN s
        ELSE LET i == Least(hits)
             IN  SubSeq(s, 1, i - 1) \o key \o SubSeq(s, i + DoubleKeyAt(s, key, i), Len(s))

\* title.match(new RegExp(`^\\s*${key}`, 'i'))
StartsWithKey(s, key) ==
    LET sp == LeadLen(s, {" "})
    IN  sp + 1 <= Len(s) /\ Lower(s[sp + 1]) = Lower(key[1])

cleanTitle(title, url, issueKey) ==
    IF Falsy(title) THEN Null
    ELSE
      LET t1 == IF Includes(title, url)
                THEN StripLead(Trim(ReplaceFirst(title, url, << >>)))
                ELSE title
          domainPart == DomainPart(url)
          t2 == IF Includes(t1, domainPart)
                THEN StripLead(Trim(ReplaceFirst(t1, domainPart, << >>)))
                ELSE t1
          t3 == IF Falsy(issueKey) THEN t2 ELSE CollapseDoubleKey(t2, issueKey)
          t4 == IF Falsy(issueKey) \/ StartsWithKey(t3, issueKey) THEN t3
                ELSE issueKey \o << ":", " " >> \o StripLead(t3)
      IN  Trim(t4)

-----------------------------------------------------------------------------
(* The URLs that are pasted, and the texts the two services can send back *)

\* Jira: the canonical issue URL, the same issue with a query string, a URL without a key
JB == << "https://", "ex.atlassian.net", "/browse/", "ABC-1" >>
JQ == JB \o << "?x=1" >>
JN == << "https://", "ex.atlassian.net", "/home" >>
JiraUrls == { JB, JQ, JN }

\* Asana: a task URL, the same task without the /f suffix, and a URL without a task id
AT == << "https://", "app.asana.com", "/", "0", "/", "123", "/", "456789", "/f" >>
AT2 == << "https://", "app.asana.com", "/", "0", "/", "123", "/", "456789" >>
AN == << "https://", "app.asana.com", "/home" >>
AsanaUrls == { AT, AT2, AN }

Services == { "jira", "asana" }

CacheKeys == JiraUrls \cup { normalizeJiraUrl(u) : u \in JiraUrls } \cup AsanaUrls

Absent == [ title |-> Null, issueType |-> "<absent>" ]
Entry(t, ty) == [ title |-> t, issueType |-> ty ]

-----------------------------------------------------------------------------
(* detectIssueType over the markers a page carries, in the code's priority order *)

NoMarkers == [ confluence |-> FALSE, aria |-> "", alt |-> "", testid |-> "", json |-> "", keyword |-> "" ]

detectIssueType(m) ==
    IF m.confluence THEN "Confluence Page"
    ELSE IF m.aria # "" THEN m.aria
    ELSE IF m.alt \in { "Story", "Epic", "Task", "Bug", "Subtask" } THEN m.alt
    ELSE IF m.testid # "" THEN m.testid
    ELSE IF m.json \in { "Epic", "Story", "Bug", "Task" } THEN m.json
    ELSE IF m.keyword \in { "Bug", "Epic", "Story", "Task" } THEN m.keyword
    ELSE "Unknown"

-----------------------------------------------------------------------------
(* Network responses *)

\* a response is [kind, status, body]: kind "reject" is a fetch that threw
IsOk(r)  == r.kind = "http" /\ r.status >= 200 /\ r.status <= 299
IsAuthStatus(r) == r.kind = "http" /\ r.status \in { 401, 403 }

\* bodies of GET <base>/rest/api/2/issue/<KEY>
JiraApiBodies ==
    { [ summary |-> << "Fix login bug" >>, issuetype |-> "Bug" ],
      [ summary |-> JB, issuetype |-> "Task" ],
      [ summary |-> Null, issuetype |-> "Bug" ] }

\* pages of GET <base>/browse/<KEY> : the text of <title>, Null when the title
\* regular expression finds nothing, and the issue-type markers
JiraPages ==
    { [ titleTag |-> << "[", "ABC-1", "]", " ", "Fix login bug", " - ", "Jira" >>,
        markers |-> [ NoMarkers EXCEPT !.aria = "Bug" ] ],
      [ titleTag |-> << "Issue navigator", " - ", "Jira" >>, markers |-> NoMarkers ],
      [ titleTag |-> << "[", "ABC-1", "]", " ", "Issue navigator", " ", "crash", " - ", "Jira" >>,
        markers |-> NoMarkers ],
      [ titleTag |-> << "[", "XYZ-9", "]", " ", "Moved issue", " - ", "Jira" >>,
        markers |-> NoMarkers ],
      [ titleTag |-> Null, markers |-> [ NoMarkers EXCEPT !.json = "Bug" ] ] }

JiraStatuses == { 401, 404 }

NoJiraBody == [ summary |-> Null, issuetype |-> "" ]
NoJiraPage == [ titleTag |-> Null, markers |-> NoMarkers ]

JiraApiResponses ==
    { [ kind |-> "reject", status |-> 0, body |-> NoJiraBody ] }
    \cup { [ kind |-> "http", status |-> st, body |-> NoJiraBody ] : st \in JiraStatuses }
    \cup { [ kind |-> "http", status |-> 200, body |-> b ] : b \in JiraApiBodies }

JiraHtmlResponses ==
    { [ kind |-> "reject", status |-> 0, body |-> NoJiraPage ] }
    \cup { [ kind |-> "http", status |-> st, body |-> NoJiraPage ] : st \in JiraStatuses }
    \cup { [ kind |-> "http", status |-> 200, body |-> p ] : p \in JiraPages }

-----------------------------------------------------------------------------
(* fetchJiraTitleViaAPI and fetchJiraTitleViaHTML, from the response on *)

\* `${issueKey}: Jira Issue`
JiraFallbackTitle(issueKey) ==
    IF Falsy(issueKey) THEN << "Jira Issue" >> ELSE issueKey \o << ":", " ", "Jira Issue" >>

\* url.split(marker)[0]
Before(url, marker) ==
    IF Includes(url, << marker >>) THEN SubSeq(url, 1, IndexOf(url, << marker >>) - 1) ELSE url

\* what a fetchJiraTitleVia... function returns: the title and issue type, whether it
\* called chrome.tabs.create, and the return statement it left by:
\* "error" (catch), "auth" (401/403), "status" (not ok), "title", "generic", "notitle"
Result(title, issueType, tab, via) ==
    [ title |-> title, issueType |-> issueType, tab |-> tab, via |-> via ]

JiraApiResult(url, resp) ==
    LET issueKey == extractIssueKeyFromUrl(url)
    IN  IF resp.kind = "reject" THEN Result(Null, "Unknown", FALSE, "error")
        ELSE IF IsAuthStatus(resp)
             THEN Result(JiraFallbackTitle(issueKey), "Unknown", TRUE, "auth")
        ELSE IF ~IsOk(resp) THEN Result(Null, "Unknown", FALSE, "status")
        ELSE LET issueType == IF resp.body.issuetype # "" THEN resp.body.issuetype ELSE "Unknown"
                 summary == resp.body.summary
             IN  IF ~Falsy(summary)
                 THEN Result(cleanTitle(issueKey \o << ":", " " >> \o summary, url, issueKey),
                             issueType, FALSE, "title")
                 ELSE Result(Null, issueType, FALSE, "notitle")

\* the URL fetchJiraTitleViaHTML requests (it reassigns its parameter url)
JiraHtmlUrl(url) ==
    LET urlIssueKey == extractIssueKeyFromUrl(url)
    IN  IF Includes(url, << "/browse/" >>) THEN url
        ELSE IF Includes(url, << "/issues/" >>)
             THEN Before(url, "/issues/") \o << "/browse/" >> \o urlIssueKey
        ELSE Origin(url) \o << "/browse/" >> \o urlIssueKey

\* html.match(/<title>(?:\[([A-Z]+-\d+)\])?(.+?)(?: - .+)?<\/title>/i) on the text of <title>:
\* [matched, key, pageTitle] with pageTitle already trimmed
TitleMatch(tag) ==
    IF Falsy(tag) THEN [ matched |-> FALSE, key |-> Null, pageTitle |-> << >> ]
    ELSE
      LET bracket == Len(tag) > 3 /\ tag[1] = "[" /\ tag[2] \in AnyCaseKeys /\ tag[3] = "]"
          rest == IF bracket THEN SubSeq(tag, 4, Len(tag)) ELSE tag
          \* (.+?) is lazy: it stops at the first " - " that has text before and after it
          cuts == { i \in 2..(Len(rest) - 1) : rest[i] = " - " }
          body == IF cuts = {} THEN rest ELSE SubSeq(rest, 1, Least(cuts) - 1)
      IN  [ matched |-> TRUE,
            key |-> IF bracket THEN << tag[2] >> ELSE Null,
            pageTitle |-> Trim(body) ]

IsGenericJiraTitle(pageTitle) ==
    \/ pageTitle = << "Issue navigator" >>
    \/ pageTitle = << "Dashboard" >>
    \/ pageTitle = << "Issues" >>
    \/ Includes(pageTitle, << "Issue Search" >>)

\* a faulty variant of JiraHtmlResult: the title of the page is used whatever it says
JiraHtmlResultKeepsGeneric(url0, resp) ==
    LET urlIssueKey == extractIssueKeyFromUrl(url0)
        url == JiraHtmlUrl(url0)
    IN  IF resp.kind = "reject" THEN Result(Null, "Unknown", FALSE, "error")
        ELSE IF IsAuthStatus(resp)
             THEN Result(JiraFallbackTitle(extractIssueKeyFromUrl(url)), "Unknown", TRUE, "auth")
        ELSE IF ~IsOk(resp) THEN Result(Null, "Unknown", FALSE, "status")
        ELSE
          LET issueType == detectIssueType(resp.body.markers)
              m == TitleMatch(resp.body.titleTag)
              titleIssueKey == IF Falsy(m.key) THEN urlIssueKey ELSE m.key
          IN  IF m.matched
              THEN Result(cleanTitle(titleIssueKey \o << ":", " " >> \o m.pageTitle, url, titleIssueKey),
                          issueType, FALSE, "title")
              ELSE Result(JiraFallbackTitle(urlIssueKey), issueType, FALSE, "notitle")

\* what fetchJiraTitleViaHTML returns once its fetch has answered
JiraHtmlResult(url0, resp) ==
    LET urlIssueKey == extractIssueKeyFromUrl(url0)
        url == JiraHtmlUrl(url0)
    IN  IF resp.kind = "reject" THEN Result(Null, "Unknown", FALSE, "error")
        ELSE IF IsAuthStatus(resp)
             THEN Result(JiraFallbackTitle(extractIssueKeyFromUrl(url)), "Unknown", TRUE, "auth")
        ELSE IF ~IsOk(resp) THEN Result(Null, "Unknown", FALSE, "status")
        ELSE
          LET issueType == detectIssueType(resp.body.markers)
              m == TitleMatch(resp.body.titleTag)
              titleIssueKey == IF Falsy(m.key) THEN urlIssueKey ELSE m.key
          IN  IF m.matched /\ IsGenericJiraTitle(m.pageTitle)
              THEN Result(JiraFallbackTitle(urlIssueKey), issueType, FALSE, "generic")
              ELSE IF m.matched
              THEN Result(cleanTitle(titleIssueKey \o << ":", " " >> \o m.pageTitle, url, titleIssueKey),
                          issueType, FALSE, "title")
              ELSE Result(JiraFallbackTitle(urlIssueKey), issueType, FALSE, "notitle")

-----------------------------------------------------------------------------
(* Asana: task ids, responses, fetchAsanaTaskTitle from the response on *)

\* tokens matching \d+ , with their lengths in characters
DigitToks == { "0", "123", "456789" }

\* tokens that end with "/"
SlashEndToks == { "/", "/browse/", "/issues/", "/item/", "/task/" }

\* String.prototype.length of a token
TokLen(t) ==
    CASE t = "0" -> 1
      [] t = " " -> 1
      [] t = "123" -> 3
      [] t = "Home" -> 4
      [] t = "Asana" -> 5
      [] t = "456789" -> 6
      [] t = "Ship v2" -> 7
      [] t = "Asana Task" -> 10
      [] t = "Redirecting" -> 11
      [] OTHER -> 12

RECURSIVE StrLen(_)
StrLen(s) == IF s = << >> THEN 0 ELSE TokLen(Head(s)) + StrLen(Tail(s))

\* url.split(marker)[1].match(/(\d+)/): the first digits in the text between the first
\* occurrence of marker and the next one
DigitsAfter(url, marker) ==
    LET from == IndexOf(url, << marker >>)
        next == { i \in (from + 1)..Len(url) : url[i] = marker }
        to == IF next = {} THEN Len(url) ELSE Least(next) - 1
        hits == { i \in (from + 1)..to : url[i] \in DigitToks }
    IN  IF from = 0 \/ hits = {} THEN Null ELSE << url[Least(hits)] >>

\* url.match(/(?:\/|task\/)(\d+)(?:\/f|[?#&].*|\s|$)/i)
TaskIdRegexHits(url) ==
    { i \in 2..Len(url) :
        /\ url[i] \in DigitToks
        /\ url[i - 1] \in SlashEndToks
        /\ (i = Len(url) \/ url[i + 1] \in { "/f", " " } \cup QueryToks) }

\* the '/'-delimited parts of the url that are all digits, in order
NumericSegments(url) ==
    { i \in 2..Len(url) :
        /\ url[i] \in DigitToks
        /\ url[i - 1] \in SlashEndToks
        /\ (i = Len(url) \/ url[i + 1] \in SlashToks) }

extractAsanaTaskIdFromUrl(url) ==
    IF Falsy(url) THEN Null
    ELSE IF DigitsAfter(url, "/item/") # Null THEN DigitsAfter(url, "/item/")
    ELSE IF DigitsAfter(url, "/task/") # Null THEN DigitsAfter(url, "/task/")
    ELSE IF TaskIdRegexHits(url) # {} THEN << url[Least(TaskIdRegexHits(url))] >>
    ELSE IF NumericSegments(url) # {}
         \* the sort by length is stable: the first of the longest
         THEN LET longest == { i \in NumericSegments(url) :
                                 \A j \in NumericSegments(url) : TokLen(url[j]) <= TokLen(url[i]) }
              IN  << url[Least(longest)] >>
    ELSE Null

\* /^\d+$/.test(taskId)
IsDigits(taskId) == Len(taskId) = 1 /\ taskId[1] \in DigitToks

\* `Asana Task ${taskId}`
AsanaFallbackTitle(taskId) == << "Asana Task", " " >> \o taskId

IsGenericAsanaTitle(title) ==
    title \in { << "Asana" >>, << "Asana Task" >>, << "Asana Project" >>, << "Redirecting" >> }

\* a page of app.asana.com: whether its text holds a login / redirect marker, the task
\* name in the embedded JSON blob, the text of <title>, the captures of the name
\* patterns that match (in the order of the pattern list), the capture of the loose
\* JSON-fragment pattern
NoAsanaPage == [ login |-> FALSE, jsonName |-> Null, titleTag |-> Null,
                 patterns |-> << >>, fragment |-> Null ]

AsanaPages ==
    { [ NoAsanaPage EXCEPT !.titleTag = << "Ship v2" >> ],
      [ NoAsanaPage EXCEPT !.titleTag = << "Asana" >> ],
      [ NoAsanaPage EXCEPT !.titleTag = << "Home" >>, !.patterns = << << "Ship v2" >> >> ],
      [ NoAsanaPage EXCEPT !.login = TRUE, !.titleTag = << "Redirecting" >> ],
      NoAsanaPage }

AsanaStatuses == { 401, 404 }

\* bodies of GET /api/1.0/tasks/<id> : data.name, Null when there is none
AsanaApiResponses ==
    { [ kind |-> "reject", status |-> 0, name |-> Null ] }
    \cup { [ kind |-> "http", status |-> st, name |-> Null ] : st \in AsanaStatuses }
    \cup { [ kind |-> "http", status |-> 200, name |-> n ] : n \in { << "Ship v2" >>, Null } }

\* toLogin: response.url includes 'login' or 'auth' after the redirects were followed
AsanaHtmlResponses ==
    { [ kind |-> "reject", status |-> 0, toLogin |-> FALSE, body |-> NoAsanaPage ] }
    \cup { [ kind |-> "http", status |-> st, toLogin |-> FALSE, body |-> NoAsanaPage ] : st \in AsanaStatuses }
    \cup { [ kind |-> "http", status |-> 200, toLogin |-> TRUE, body |-> NoAsanaPage ] }
    \cup { [ kind |-> "http", status |-> 200, toLogin |-> FALSE, body |-> p ] : p \in AsanaPages }

\* a faulty variant of AsanaApiTitle: the name in the API's answer is not looked at
AsanaApiTitleIgnoresName(resp) == Null

\* the API tier of fetchAsanaTaskTitle: the title it returns, Null when it goes on to the page
AsanaApiTitle(resp) ==
    IF IsOk(resp) /\ ~Falsy(resp.name) THEN Trim(resp.name) ELSE Null

\* title.toLowerCase().includes('redirect')
MentionsRedirect(title) ==
    \E i \in 1..Len(title) : title[i] \in { "Redirecting", "redirecting" }

\* the captures of the name patterns that the loop accepts
AcceptedPatterns(page) ==
    SelectSeq(page.patterns, LAMBDA c : ~(StrLen(Trim(c)) < 3 \/ MentionsRedirect(Trim(c))))

\* the page tier of fetchAsanaTaskTitle: the title it returns, Null when it calls
\* openAuthTab, and the return statement it leaves by: "error" (catch), "redirect",
\* "auth" (401/403), "status" (not ok), "login" (markers in the page), "shorttitle"
\* (a <title> that says redirect or is under 5 characters), "title", "notitle"
AsanaHtmlResult(resp) ==
    IF resp.kind = "reject" THEN [ title |-> Null, via |-> "error" ]
    ELSE IF resp.status \in { 301, 302, 303, 307, 308 } \/ resp.toLogin
         THEN [ title |-> Null, via |-> "redirect" ]
    ELSE IF IsAuthStatus(resp) THEN [ title |-> Null, via |-> "auth" ]
    ELSE IF ~IsOk(resp) THEN [ title |-> Null, via |-> "status" ]
    ELSE IF resp.body.login THEN [ title |-> Null, via |-> "login" ]
    ELSE IF ~Falsy(resp.body.jsonName) THEN [ title |-> resp.body.jsonName, via |-> "title" ]
    ELSE IF ~Falsy(resp.body.titleTag)
         THEN IF MentionsRedirect(Trim(resp.body.titleTag)) \/ StrLen(Trim(resp.body.titleTag)) < 5
              THEN [ title |-> Null, via |-> "shorttitle" ]
              ELSE [ title |-> Trim(resp.body.titleTag), via |-> "title" ]
    ELSE IF AcceptedPatterns(resp.body) # << >>
         THEN [ title |-> Trim(Head(AcceptedPatterns(resp.body))), via |-> "title" ]
    ELSE IF ~Falsy(resp.body.fragment) THEN [ title |-> Trim(resp.body.fragment), via |-> "title" ]
    ELSE [ title |-> Null, via |-> "notitle" ]

-----------------------------------------------------------------------------
(* Bounds of the model *)

\* messages from content scripts the background receives in one run
MaxRequests == 2
\* sign-in signals in one run
MaxSignals == 1
\* Date.now() when the background starts, the step of the clock, and its last value
StartTime == 30000
TickMs == 30000
MaxTime == 60000

\* tokens after the host in the URLs a function is run on
MaxSegs == 4

\* openAuthTab: if (now - lastAttempt < 30000)
AuthWindowMs == 30000

-----------------------------------------------------------------------------
(* State *)

VARIABLES
    titleCache,   \* const titleCache = {} : URL -> {title, issueType}, Absent when not set
    authStatus,   \* const authStatus : service -> {authenticated, pendingTasks, lastAuthAttempt}
    now,          \* Date.now()
    inflight,     \* bag of resolutions waiting for a fetch to answer
    timers,       \* bag of setTimeout callbacks not yet run
    out,          \* what the last step did to the outside: fetches, replies, tabs, pushes
    last,         \* the reply delivered to the latest finished request
    tabLog,       \* per service, the time of the last chrome.tabs.create call, -1 if none
    nReq,         \* messages received so far
    nSig,         \* sign-in signals (tabs.onUpdated on a page of a service) so far
    fnArg,        \* the argument of a function of the script that is run on its own
    fnRes,        \* what the function returned for fnArg, Pending before it has run
    page,         \* the content script in one page: platform, listeners, intervals, flags
    win,          \* window._jiraLinkLastPasteEventTime, _allowNextPaste, _lastPastedText, ...
    pageCache,    \* the content script's const titleCache = {}
    pendingElements, \* const pendingElements = new Map() : key -> tracked element
    awaiting,     \* bag of messages sent to the background whose response has not come
    pageNow,      \* Date.now() in the page
    did,          \* what the last step of the content script did: preventDefault, inserts, messages
    nPaste        \* paste events so far

backgroundVars ==
    << titleCache, authStatus, now, inflight, timers, out, last, tabLog, nReq, nSig >>

pageVars == << page, win, pageCache, pendingElements, awaiting, pageNow, did, nPaste >>

vars == << titleCache, authStatus, now, inflight, timers, out, last, tabLog, nReq, nSig,
           fnArg, fnRes, page, win, pageCache, pendingElements, awaiting, pageNow, did, nPaste >>

\* fnRes before the function has run
Pending == << "<pending>" >>

\* one entry of out.  e is "request", "fetch", "reply", "tab", "notify", "push",
\* "clear", "callback" or "error"
Ev(e, svc, url, title, issueType) ==
    [ e |-> e, svc |-> svc, url |-> url, title |-> title, issueType |-> issueType,
      force |-> FALSE, hit |-> FALSE, src |-> "" ]

\* a message received: forceRefresh, and whether the cache held an entry for it on receipt
RequestEv(svc, url, forceRefresh, hit) ==
    [ Ev("request", svc, url, << >>, "") EXCEPT !.force = forceRefresh, !.hit = hit ]

\* a resolution in flight: pc is the fetch it waits for, retry tells a run started by a
\* retry callback from a run started by a message, force is the message's forceRefresh
Flight(svc, url, taskId, pc, retry, forceRefresh) ==
    [ svc |-> svc, url |-> url, taskId |-> taskId, pc |-> pc, retry |-> retry,
      force |-> forceRefresh ]

Timer(kind, url, taskId) == [ kind |-> kind, url |-> url, taskId |-> taskId ]

\* the reply a request got, and where its title came from: "cache", "nokey",
\* "api" (the summary the API sent), "html" (the title of the page) or "fallback"
NoReply == [ url |-> << >>, title |-> Null, issueType |-> "", tier |-> "none" ]
Reply(url, title, issueType, tier) ==
    [ url |-> url, title |-> title, issueType |-> issueType, tier |-> tier ]

\* the sendResponse calls and pushes evs of a finished resolution, marked with the
\* request's forceRefresh and with src: "cache", "nokey", or the tier and the return
\* statement that ended the resolution ("api:title", "html:status", ...)
RECURSIVE Marked(_, _, _)
Marked(evs, src, forceRefresh) ==
    IF evs = << >> THEN << >>
    ELSE << IF Head(evs).e \in { "reply", "push" }
            THEN [ Head(evs) EXCEPT !.src = src, !.force = forceRefresh ] ELSE Head(evs) >>
         \o Marked(Tail(evs), src, forceRefresh)

\* where the title of a reply marked src came from
TierOf(src) ==
    IF src \in { "cache", "nokey" } THEN src
    ELSE IF src = "api:title" THEN "api"
    ELSE IF src = "html:title" THEN "html"
    ELSE "fallback"

\* the background after its script has been loaded
\* a page whose content script has not run: lines 72-79
PageAtStart(platform) ==
    [ platform |-> platform,
      loaded |-> FALSE,          \* the top-level code of the script has run
      initialized |-> FALSE,     \* window._jiraLinkExtensionInitialized
      docInitialized |-> FALSE,  \* document._jiraLinkListenersInitialized
      listeners |-> { },         \* phases in which handlePasteEvent listens on the document
      intervals |-> 0,           \* live setInterval(updatePendingLinks, 250)
      intervalRef |-> FALSE,     \* window._jiraLinkUpdateInterval names a live interval
      onMessage |-> 0,           \* chrome.runtime.onMessage listeners of the content script
      domHook |-> FALSE,         \* DOMContentLoaded listener waiting
      loadHook |-> FALSE ]       \* window load listener waiting

WinAtStart ==
    [ lastPasteEventTime |-> 0, allowNextPaste |-> FALSE,
      lastPastedText |-> Null, lastPasteTime |-> 0 ]

\* the content script's part of the state while only the background is looked at
NoPage ==
    /\ page = PageAtStart("unknown")
    /\ win = WinAtStart
    /\ pageCache = << >>
    /\ pendingElements = << >>
    /\ awaiting = EmptyBag
    /\ pageNow = 0
    /\ did = << >>
    /\ nPaste = 0

Background ==
    /\ titleCache = [ k \in CacheKeys |-> Absent ]
    /\ authStatus = [ s \in Services |->
                        [ authenticated |-> FALSE, pendingTasks |-> << >>, lastAuthAttempt |-> 0 ] ]
    /\ now = StartTime
    /\ inflight = EmptyBag
    /\ timers = EmptyBag
    /\ out = << >>
    /\ last = NoReply
    /\ tabLog = [ s \in Services |-> -1 ]
    /\ nReq = 0
    /\ nSig = 0

Init ==
    /\ Background
    /\ fnArg = << >>
    /\ fnRes = Pending
    /\ NoPage

\* the tab log after the events evs
RECURSIVE TabLogAfter(_, _, _)
TabLogAfter(log, evs, t) ==
    IF evs = << >> THEN log
    ELSE TabLogAfter(IF Head(evs).e = "tab"
                     THEN [ log EXCEPT ![Head(evs).svc] = t ] ELSE log,
                     Tail(evs), t)

-----------------------------------------------------------------------------
(* The fetchJiraTitle handler and its promise chain *)

\* titleCache[url] || titleCache[normalizedUrl]
JiraLookup(cache, url) ==
    IF cache[url] # Absent THEN cache[url] ELSE cache[normalizeJiraUrl(url)]

\* the handler's removal of a cached "Issue navigator" title
JiraPurge(cache, url) ==
    LET cachedEntry == JiraLookup(cache, url)
    IN  IF cachedEntry # Absent /\ ~Falsy(cachedEntry.title)
           /\ Includes(cachedEntry.title, << "Issue navigator" >>)
        THEN [ cache EXCEPT ![url] = Absent, ![normalizeJiraUrl(url)] = Absent ]
        ELSE cache

\* titleCache[url] = cacheData; if (normalizedUrl !== url) titleCache[normalizedUrl] = cacheData
JiraStore(cache, url, entry) ==
    [ cache EXCEPT ![url] = entry, ![normalizeJiraUrl(url)] = entry ]

\* the value a .then callback receives when the callback before it returned nothing
Undefined == Result(Null, "<undefined>", FALSE, "")

\* a faulty variant of HtmlThen: the fallback is replied but not written to the cache
HtmlThenForgetsFallback(cache, url, htmlResult) ==
    IF htmlResult # Undefined /\ ~Falsy(htmlResult.title)
    THEN [ cache |-> JiraStore(cache, url, Entry(htmlResult.title, htmlResult.issueType)),
           out |-> << Ev("reply", "jira", url, htmlResult.title, htmlResult.issueType) >> ]
    ELSE [ cache |-> cache,
           out |-> << Ev("reply", "jira", url,
                         JiraFallbackTitle(extractIssueKeyFromUrl(url)), "Unknown") >> ]

\* the second .then callback of the chain, applied to htmlResult:
\* the cache it leaves and the sendResponse calls it makes
HtmlThen(cache, url, htmlResult) ==
    IF htmlResult # Undefined /\ ~Falsy(htmlResult.title)
    THEN [ cache |-> JiraStore(cache, url, Entry(htmlResult.title, htmlResult.issueType)),
           out |-> << Ev("reply", "jira", url, htmlResult.title, htmlResult.issueType) >> ]
    ELSE LET fallbackTitle == JiraFallbackTitle(extractIssueKeyFromUrl(url))
         IN  [ cache |-> JiraStore(cache, url, Entry(fallbackTitle, "Unknown")),
               out |-> << Ev("reply", "jira", url, fallbackTitle, "Unknown") >> ]

\* the first .then callback applied to an apiResult that has a title, followed by the
\* second .then callback, which then receives undefined
ApiThen(cache, url, apiResult) ==
    LET stored == JiraStore(cache, url, Entry(apiResult.title, apiResult.issueType))
        next == HtmlThen(stored, url, Undefined)
    IN  [ cache |-> next.cache,
          out |-> << Ev("reply", "jira", url, apiResult.title, apiResult.issueType) >> \o next.out ]

\* chrome.tabs.create({url, active: false}) called by a fetchJiraTitleVia... function
JiraTabEvs(res, url) == IF res.tab THEN << Ev("tab", "jira", url, << >>, "") >> ELSE << >>

\* the first sendResponse call of a step is the reply the content script receives
Replies(evs) == SelectSeq(evs, LAMBDA x : x.e = "reply")
Delivered(evs) ==
    LET r == Head(Replies(evs)) IN Reply(r.url, r.title, r.issueType, TierOf(r.src))

FetchJiraTitle(url, forceRefresh) ==
    /\ nReq < MaxRequests
    /\ nReq' = nReq + 1
    /\ LET purged == JiraPurge(titleCache, url)
           cachedData == JiraLookup(purged, url)
           issueKey == extractIssueKeyFromUrl(url)
           req == RequestEv("jira", url, forceRefresh, JiraLookup(titleCache, url) # Absent)
       IN  IF cachedData # Absent /\ ~forceRefresh
           THEN /\ titleCache' = purged
                /\ out' = << req >> \o
                          Marked(<< Ev("reply", "jira", url,
                                       cleanTitle(cachedData.title, url, issueKey),
                                       cachedData.issueType) >>, "cache", forceRefresh)
                /\ last' = Delivered(out')
                /\ UNCHANGED inflight
           ELSE IF issueKey = Null
           \* fetchJiraTitleViaAPI returns {title: null} and fetchJiraTitleViaHTML
           \* returns {title: "Jira Issue"}, both before any fetch
           THEN LET done == HtmlThen(purged, url,
                                Result(<< "Jira Issue" >>, "Unknown", FALSE, "nokey"))
                IN  /\ titleCache' = done.cache
                    /\ out' = << req >> \o Marked(done.out, "nokey", forceRefresh)
                    /\ last' = Delivered(out')
                    /\ UNCHANGED inflight
           ELSE /\ titleCache' = purged
                /\ inflight' = inflight (+) SetToBag({ Flight("jira", url, Null, "api", FALSE, forceRefresh) })
                /\ out' = << req, Ev("fetch", "jira", url, << "api" >>, "") >>
                /\ UNCHANGED last
    /\ UNCHANGED << authStatus, now, timers, tabLog, nSig >>
    /\ UNCHANGED << fnArg, fnRes >>
    /\ UNCHANGED pageVars

\* the API fetch of r answers with resp
JiraApiResponse(r, resp) ==
    /\ r.svc = "jira" /\ r.pc = "api"
    /\ LET apiResult == JiraApiResult(r.url, resp)
       IN  IF ~Falsy(apiResult.title)
           THEN LET done == ApiThen(titleCache, r.url, apiResult)
                IN  /\ titleCache' = done.cache
                    /\ out' = JiraTabEvs(apiResult, r.url)
                               \o Marked(done.out, "api:" \o apiResult.via, r.force)
                    /\ last' = Delivered(out')
                    /\ inflight' = inflight (-) SetToBag({ r })
           ELSE /\ inflight' = (inflight (-) SetToBag({ r }))
                                 (+) SetToBag({ [ r EXCEPT !.pc = "html" ] })
                /\ out' = << Ev("fetch", "jira", JiraHtmlUrl(r.url), << "html" >>, "") >>
                /\ UNCHANGED << titleCache, last >>
    /\ tabLog' = TabLogAfter(tabLog, out', now)
    /\ UNCHANGED << authStatus, now, timers, nReq, nSig >>
    /\ UNCHANGED << fnArg, fnRes >>
    /\ UNCHANGED pageVars

\* the page fetch of r answers with resp
JiraHtmlResponse(r, resp) ==
    /\ r.svc = "jira" /\ r.pc = "html"
    /\ LET htmlResult == JiraHtmlResult(r.url, resp)
           done == HtmlThen(titleCache, r.url, htmlResult)
       IN  /\ titleCache' = done.cache
           /\ out' = JiraTabEvs(htmlResult, JiraHtmlUrl(r.url))
                      \o Marked(done.out, "html:" \o htmlResult.via, r.force)
           /\ last' = Delivered(out')
    /\ inflight' = inflight (-) SetToBag({ r })
    /\ tabLog' = TabLogAfter(tabLog, out', now)
    /\ UNCHANGED << authStatus, now, timers, nReq, nSig >>
    /\ UNCHANGED << fnArg, fnRes >>
    /\ UNCHANGED pageVars

-----------------------------------------------------------------------------
(* openAuthTab, the retry callback it registers, retryPendingTasks *)

\* pendingTasks is a Map: set(url, cb) replaces the value of a key in place, or appends
RECURSIVE MapSet(_, _, _)
MapSet(m, url, task) ==
    IF m = << >> THEN << task >>
    ELSE IF Head(m).url = url THEN << task >> \o Tail(m)
    ELSE << Head(m) >> \o MapSet(Tail(m), url, task)

MapHas(m, url) == \E i \in 1..Len(m) : m[i].url = url

\* `${service.charAt(0).toUpperCase() + service.slice(1)} Task ${taskId}` and `${service}Task`
AuthTabResult(taskId, service) ==
    IF service = "asana"
    THEN [ title |-> << "Asana Task", " " >> \o taskId, issueType |-> "asanaTask" ]
    ELSE [ title |-> << "Jira Task", " " >> \o taskId, issueType |-> "jiraTask" ]

\* openAuthTab(url, taskId, service) at time t: the authStatus it leaves, what it does
\* to the outside, and what it returns
openAuthTab(auth, t, url, taskId, service) ==
    LET lastAttempt == auth[service].lastAuthAttempt
        opens == ~(t - lastAttempt < AuthWindowMs)
        a1 == IF opens THEN [ auth EXCEPT ![service].lastAuthAttempt = t ] ELSE auth
    IN  [ auth |-> [ a1 EXCEPT ![service].pendingTasks =
                                  MapSet(@, url, [ url |-> url, taskId |-> taskId ]) ],
          out |-> IF opens
                  THEN << Ev("tab", service, url, << >>, ""), Ev("notify", service, url, << >>, "") >>
                  ELSE << >>,
          result |-> AuthTabResult(taskId, service) ]

\* result.title.startsWith(`${service} Task`)
StartsWithServiceTask(title, service) ==
    title # << >> /\ Head(title) = (IF service = "asana" THEN "asana Task" ELSE "jira Task")

\* the .then callback of the retry callback: the cache it leaves and what it sends.
\* sendResponse is not in scope in openAuthTab, so the call in the generic-title
\* branch throws a ReferenceError after the cache was written.
RetryThen(cache, url, taskId, service, result) ==
    IF ~Falsy(result.title) /\ ~StartsWithServiceTask(result.title, service)
    THEN IF IsGenericAsanaTitle(result.title)
         THEN [ cache |-> [ cache EXCEPT ![url] = Entry(AsanaFallbackTitle(taskId), "AsanaTask") ],
                out |-> << Ev("error", service, url, << >>, "") >> ]
         ELSE [ cache |-> [ cache EXCEPT ![url] = Entry(result.title, result.issueType) ],
                out |-> << Ev("push", service, url, result.title, result.issueType) >> ]
    ELSE [ cache |-> cache, out |-> << >> ]

\* a faulty variant of RequestThen: whatever title came back is cached and replied
RequestThenKeepsPlaceholder(cache, url, finalTaskId, result) ==
    IF ~Falsy(result.title)
    THEN [ cache |-> [ cache EXCEPT ![url] = Entry(result.title, "AsanaTask") ],
           out |-> << Ev("reply", "asana", url, result.title, "AsanaTask") >> ]
    ELSE [ cache |-> [ cache EXCEPT ![url] = Entry(AsanaFallbackTitle(finalTaskId), "AsanaTask") ],
           out |-> << Ev("reply", "asana", url, AsanaFallbackTitle(finalTaskId), "AsanaTask") >> ]

\* the .then callback of the fetchAsanaTitle handler
RequestThen(cache, url, finalTaskId, result) ==
    IF ~Falsy(result.title) /\ ~IsGenericAsanaTitle(result.title)
    THEN [ cache |-> [ cache EXCEPT ![url] = Entry(result.title, "AsanaTask") ],
           out |-> << Ev("reply", "asana", url, result.title, "AsanaTask") >> ]
    ELSE [ cache |-> [ cache EXCEPT ![url] = Entry(AsanaFallbackTitle(finalTaskId), "AsanaTask") ],
           out |-> << Ev("reply", "asana", url, AsanaFallbackTitle(finalTaskId), "AsanaTask") >> ]

\* tasks.forEach((callback, url) => callback()) : each callback only arms a 2000 ms timer
RECURSIVE RunCallbacks(_, _)
RunCallbacks(tasks, st) ==
    IF tasks = << >> THEN st
    ELSE RunCallbacks(Tail(tasks),
           [ st EXCEPT !.timers = @ (+) SetToBag({ Timer("retry", Head(tasks).url, Head(tasks).taskId) }),
                       !.out = Append(@, Ev("callback", "", Head(tasks).url, << >>, "")) ])

\* a faulty variant of retryPendingTasks: the callbacks run, the map is left as it was
retryPendingTasksKeepsMap(auth, tm, t, service) ==
    RunCallbacks(auth[service].pendingTasks,
                 [ auth |-> [ auth EXCEPT ![service].authenticated = TRUE,
                                          ![service].lastAuthAttempt = t ],
                   timers |-> tm, out |-> << >> ])

\* retryPendingTasks(service) at time t: [auth, timers, out]
\* a faulty variant of retryPendingTasks: every service is marked authenticated
retryPendingTasksMarksEvery(auth, tm, t, service) ==
    LET tasks == auth[service].pendingTasks
        cleared == [ auth EXCEPT ![service].pendingTasks = << >> ]
        marked == [ s \in DOMAIN cleared |->
                      [ cleared[s] EXCEPT !.authenticated = TRUE, !.lastAuthAttempt = t ] ]
    IN  RunCallbacks(tasks, [ auth |-> marked, timers |-> tm,
                              out |-> << Ev("clear", service, << >>, << >>, "") >> ])

retryPendingTasks(auth, tm, t, service) ==
    LET tasks == auth[service].pendingTasks
        cleared == [ auth EXCEPT ![service].pendingTasks = << >> ]
        marked == [ cleared EXCEPT ![service].authenticated = TRUE,
                                   ![service].lastAuthAttempt = t ]
    IN  RunCallbacks(tasks, [ auth |-> marked, timers |-> tm,
                              out |-> << Ev("clear", service, << >>, << >>, "") >> ])

-----------------------------------------------------------------------------
(* The fetchAsanaTitle handler and fetchAsanaTaskTitle *)

\* what a content script sends as request.taskId: nothing, or the id it found in the url
AsanaTaskIds(url) == { Null, extractAsanaTaskIdFromUrl(url) }

FetchAsanaTitle(url, taskId, forceRefresh) ==
    /\ nReq < MaxRequests
    /\ nReq' = nReq + 1
    /\ LET finalTaskId == IF Falsy(taskId) \/ ~IsDigits(taskId)
                          THEN extractAsanaTaskIdFromUrl(url) ELSE taskId
           req == RequestEv("asana", url, forceRefresh, titleCache[url] # Absent)
       IN  IF Falsy(finalTaskId)
           THEN /\ out' = << req >> \o
                          Marked(<< Ev("reply", "asana", url, << "Asana Task" >>, "AsanaTask") >>,
                                 "nokey", forceRefresh)
                /\ last' = Delivered(out')
                /\ UNCHANGED inflight
           ELSE IF titleCache[url] # Absent /\ ~forceRefresh
           THEN /\ out' = << req >> \o
                          Marked(<< Ev("reply", "asana", url, titleCache[url].title, "AsanaTask") >>,
                                 "cache", forceRefresh)
                /\ last' = Delivered(out')
                /\ UNCHANGED inflight
           ELSE /\ inflight' = inflight (+) SetToBag({ Flight("asana", url, finalTaskId, "api", FALSE, forceRefresh) })
                /\ out' = << req, Ev("fetch", "asana", url, << "api" >>, "") >>
                /\ UNCHANGED last
    /\ UNCHANGED << titleCache, authStatus, now, timers, tabLog, nSig >>
    /\ UNCHANGED << fnArg, fnRes >>
    /\ UNCHANGED pageVars

\* fetchAsanaTaskTitle returns: with the title a tier found, or through openAuthTab when
\* title is Null; then the .then callback of whoever called it runs
AsanaFinish(r, title, src) ==
    LET viaAuth == Falsy(title)
        oa == openAuthTab(authStatus, now, r.url, r.taskId, "asana")
        result == IF viaAuth THEN oa.result ELSE [ title |-> title, issueType |-> "AsanaTask" ]
        done == IF r.retry THEN RetryThen(titleCache, r.url, r.taskId, "asana", result)
                ELSE RequestThen(titleCache, r.url, r.taskId, result)
    IN  /\ authStatus' = IF viaAuth THEN oa.auth ELSE authStatus
        /\ titleCache' = done.cache
        /\ out' = (IF viaAuth THEN oa.out ELSE << >>) \o Marked(done.out, src, r.force)
        /\ last' = IF r.retry THEN last ELSE Delivered(out')
        /\ inflight' = inflight (-) SetToBag({ r })
        /\ tabLog' = TabLogAfter(tabLog, out', now)

\* the API fetch of r answers with resp
AsanaApiResponse(r, resp) ==
    /\ r.svc = "asana" /\ r.pc = "api"
    /\ IF ~Falsy(AsanaApiTitle(resp))
       THEN AsanaFinish(r, AsanaApiTitle(resp), "api:title")
       ELSE /\ inflight' = (inflight (-) SetToBag({ r }))
                             (+) SetToBag({ [ r EXCEPT !.pc = "html" ] })
            /\ out' = << Ev("fetch", "asana", r.url, << "html" >>, "") >>
            /\ UNCHANGED << titleCache, authStatus, last, tabLog >>
    /\ UNCHANGED << now, timers, nReq, nSig >>
    /\ UNCHANGED << fnArg, fnRes >>
    /\ UNCHANGED pageVars

\* the page fetch of r answers with resp
AsanaHtmlResponse(r, resp) ==
    /\ r.svc = "asana" /\ r.pc = "html"
    /\ AsanaFinish(r, AsanaHtmlResult(resp).title, "html:" \o AsanaHtmlResult(resp).via)
    /\ UNCHANGED << now, timers, nReq, nSig >>
    /\ UNCHANGED << fnArg, fnRes >>
    /\ UNCHANGED pageVars

-----------------------------------------------------------------------------
(* chrome.tabs.onUpdated, and the timers *)

\* the login page of Asana
AL == << "https://", "app.asana.com", "/login" >>

\* tabs whose load completes
TabUrls == { AT, AL, JB }

\* tab.url.includes('login')
IsLoginUrl(url) == \E i \in 1..Len(url) : url[i] = "/login"

\* tab.url.includes('/0/') || tab.url.match(/\/\d+\/\d+$/)
LooksLikeAsanaTask(url) ==
    \/ Includes(url, << "/", "0", "/" >>)
    \/ /\ Len(url) >= 4
       /\ url[Len(url)] \in DigitToks /\ url[Len(url) - 1] = "/"
       /\ url[Len(url) - 2] \in DigitToks /\ url[Len(url) - 3] \in SlashEndToks

\* the service for which a completed tab load counts as a finished sign-in, "" for none
SignalFor(url) ==
    IF Includes(url, << "app.asana.com" >>)
    THEN IF ~IsLoginUrl(url) /\ LooksLikeAsanaTask(url) THEN "asana" ELSE ""
    ELSE IF Includes(url, << "ex.atlassian.net" >>)
    THEN IF ~IsLoginUrl(url) /\ (Includes(url, << "/browse/" >>) \/ Includes(url, << "/issues/" >>))
         THEN "jira" ELSE ""
    ELSE ""

\* tabs.onUpdated with changeInfo.status === 'complete' for a tab at tabUrl
TabUpdated(tabUrl) ==
    /\ IF SignalFor(tabUrl) = ""
       THEN /\ out' = << >>
            /\ UNCHANGED << authStatus, timers, nSig >>
       ELSE LET done == retryPendingTasks(authStatus, timers, now, SignalFor(tabUrl))
            IN  /\ authStatus' = done.auth
                /\ timers' = IF SignalFor(tabUrl) = "asana"
                             THEN done.timers (+) SetToBag({ Timer("tabcheck", tabUrl, Null) })
                             ELSE done.timers
                /\ out' = done.out
                /\ nSig < MaxSignals
                /\ nSig' = nSig + 1
    /\ UNCHANGED << titleCache, now, inflight, last, tabLog, nReq >>
    /\ UNCHANGED << fnArg, fnRes >>
    /\ UNCHANGED pageVars

\* the 2000 ms timer of a retry callback runs: fetchAsanaTaskTitle issues its API fetch
RetryTimerFires(tm) ==
    /\ tm.kind = "retry"
    /\ timers' = timers (-) SetToBag({ tm })
    /\ inflight' = inflight (+) SetToBag({ Flight("asana", tm.url, tm.taskId, "api", TRUE, FALSE) })
    /\ out' = << Ev("fetch", "asana", tm.url, << "api" >>, "") >>
    /\ UNCHANGED << titleCache, authStatus, now, last, tabLog, nReq, nSig >>
    /\ UNCHANGED << fnArg, fnRes >>
    /\ UNCHANGED pageVars

\* titles chrome.tabs.get can report for the tab
TabTitles == { << "Ship v2" >>, << "Ship v2", " - ", "Asana" >> }

\* updatedTab.title.includes('Redirecting') / includes('Asana')
MentionsAsana(title) ==
    \E i \in 1..Len(title) : title[i] \in { "Asana", "Asana Task", "Asana Project" }

\* tab.url.match(/\/(\d+)(?:\/f)?$/)
TabTaskId(url) ==
    LET n == Len(url)
    IN  IF n >= 2 /\ url[n] \in DigitToks /\ url[n - 1] \in SlashEndToks THEN << url[n] >>
        ELSE IF n >= 3 /\ url[n] = "/f" /\ url[n - 1] \in DigitToks /\ url[n - 2] \in SlashEndToks
             THEN << url[n - 1] >>
        ELSE Null

\* the 1000 ms timer of the tabs.onUpdated listener runs and reads the tab's title
TabCheckFires(tm, title) ==
    /\ tm.kind = "tabcheck"
    /\ timers' = timers (-) SetToBag({ tm })
    /\ IF ~Falsy(title) /\ ~MentionsRedirect(title) /\ ~MentionsAsana(title)
          /\ TabTaskId(tm.url) # Null
       THEN /\ titleCache' = [ titleCache EXCEPT ![tm.url] = Entry(title, "AsanaTask") ]
            /\ out' = << [ Ev("push", "asana", tm.url, title, "AsanaTask") EXCEPT !.src = "tab" ] >>
       ELSE /\ out' = << >>
            /\ UNCHANGED titleCache
    /\ UNCHANGED << authStatus, now, inflight, last, tabLog, nReq, nSig >>
    /\ UNCHANGED << fnArg, fnRes >>
    /\ UNCHANGED pageVars

Tick ==
    /\ now < MaxTime
    /\ now' = now + TickMs
    /\ out' = << >>
    /\ UNCHANGED << titleCache, authStatus, inflight, timers, last, tabLog, nReq, nSig >>
    /\ UNCHANGED << fnArg, fnRes >>
    /\ UNCHANGED pageVars

\* the steps of Jira resolutions
NextJira ==
    \/ \E url \in JiraUrls, forceRefresh \in BOOLEAN : FetchJiraTitle(url, forceRefresh)
    \/ \E r \in BagToSet(inflight), resp \in JiraApiResponses : JiraApiResponse(r, resp)
    \/ \E r \in BagToSet(inflight), resp \in JiraHtmlResponses : JiraHtmlResponse(r, resp)

\* the steps of Asana resolutions, of the sign-in signal and of the timers
NextAsana ==
    \/ \E url \in AsanaUrls, forceRefresh \in BOOLEAN :
         \E taskId \in AsanaTaskIds(url) : FetchAsanaTitle(url, taskId, forceRefresh)
    \/ \E r \in BagToSet(inflight), resp \in AsanaApiResponses : AsanaApiResponse(r, resp)
    \/ \E r \in BagToSet(inflight), resp \in AsanaHtmlResponses : AsanaHtmlResponse(r, resp)
    \/ \E tabUrl \in TabUrls : TabUpdated(tabUrl)
    \/ \E tm \in BagToSet(timers) : RetryTimerFires(tm)
    \/ \E tm \in BagToSet(timers), title \in TabTitles : TabCheckFires(tm, title)
    \/ Tick

Next == NextJira \/ NextAsana

Spec == Init /\ [][Next]_vars

\* the background serving Jira links only, and Asana links only
SpecJira == Init /\ [][NextJira]_vars
SpecAsana == Init /\ [][NextAsana]_vars

\* what the browser does by itself: responses arrive, timers fire, time passes; the
\* requests of the content scripts and the tabs the user loads are not promised
AsanaProgress ==
    \/ \E r \in BagToSet(inflight), resp \in AsanaApiResponses : AsanaApiResponse(r, resp)
    \/ \E r \in BagToSet(inflight), resp \in AsanaHtmlResponses : AsanaHtmlResponse(r, resp)
    \/ \E tm \in BagToSet(timers) : RetryTimerFires(tm)
    \/ \E tm \in BagToSet(timers), title \in TabTitles : TabCheckFires(tm, title)
    \/ Tick

FairSpecAsana == SpecAsana /\ WF_vars(AsanaProgress)

-----------------------------------------------------------------------------
(* extractIssueKeyFromUrl run on its own *)

\* all sequences over S of length n at most
SeqsUpTo(S, n) == UNION { [ 1..k -> S ] : k \in 0..n }

\* the pieces Jira URLs are made of after the host
IssueKeyUrlToks ==
    { "/browse/", "/issues/", "/", "?selectedIssue=", "?x=1", "ABC-1", "XYZ-9", "abc-1" }

IssueKeyUrls ==
    { << "https://", "ex.atlassian.net" >> \o segs : segs \in SeqsUpTo(IssueKeyUrlToks, MaxSegs) }

InitExtractIssueKey ==
    /\ Background
    /\ fnArg \in IssueKeyUrls
    /\ fnRes = Pending
    /\ NoPage

ExtractIssueKey ==
    /\ fnRes = Pending
    /\ fnRes' = extractIssueKeyFromUrl(fnArg)
    /\ UNCHANGED << titleCache, authStatus, now, inflight, timers, out, last, tabLog, nReq, nSig, fnArg >>
    /\ UNCHANGED pageVars

SpecExtractIssueKey == InitExtractIssueKey /\ [][ExtractIssueKey]_vars

-----------------------------------------------------------------------------
(* Properties: the cache *)

\* the network fetches a step issued
Fetches(evs) == SelectSeq(evs, LAMBDA x : x.e = "fetch")

\* the step handled a message
IsRequest(evs) == evs # << >> /\ Head(evs).e = "request"

\* the step sent the reply of a request
HasReply(evs) == Replies(evs) # << >>
TheReply(evs) == Head(Replies(evs))

\* C1: a request with forceRefresh = false for a URL that has a cache entry (Jira:
\* under the URL or under its normalized form) issues no network fetch and is
\* replied from the cache.
C1_CachedRequestServedFromCache ==
    (IsRequest(out) /\ Head(out).hit /\ ~Head(out).force)
        => /\ Fetches(out) = << >>
           /\ HasReply(out)
           /\ TheReply(out).src = "cache"

\* C2: after a resolution of a Jira URL that took its title from the REST API has
\* replied, the next request for that URL with forceRefresh = false gets the same
\* title and item type and issues no fetch.
C2_SecondResolutionIdentical ==
    [][ ( /\ last.tier = "api"
          /\ IsRequest(out')
          /\ Head(out').svc = "jira"
          /\ Head(out').url = last.url
          /\ ~Head(out').force )
        => /\ Fetches(out') = << >>
           /\ HasReply(out')
           /\ TheReply(out').title = last.title
           /\ TheReply(out').issueType = last.issueType ]_vars

\* C3: when a resolution that obtained a title (from the API or from the page) has
\* finished, the cache entry under the raw URL, and for Jira the entry under the
\* normalized URL too, holds exactly the replied title and item type.
C3_CacheHoldsRepliedTitle ==
    (HasReply(out) /\ TheReply(out).src \in { "api:title", "html:title" })
        => LET r == TheReply(out)
           IN  /\ titleCache[r.url] = Entry(r.title, r.issueType)
               /\ r.svc = "jira" => titleCache[normalizeJiraUrl(r.url)] = Entry(r.title, r.issueType)

\* C4: whenever a reply or a titleUpdated push carrying (url, title, itemType) has
\* been sent, the cache entry for url holds that title and item type, so whoever
\* reads the cache next observes the value that was sent.
C4_SentValueIsCached ==
    /\ HasReply(out) =>
         titleCache[TheReply(out).url] = Entry(TheReply(out).title, TheReply(out).issueType)
    /\ \A i \in 1..Len(out) :
         out[i].e = "push" => titleCache[out[i].url] = Entry(out[i].title, out[i].issueType)

\* title holds neither url nor url without its protocol, and begins with the issue key
\* of url, a colon and a blank, not followed by that prefix again
WellFormedJiraTitle(title, url) ==
    LET prefix == extractIssueKeyFromUrl(url) \o << ":", " " >>
    IN  /\ ~Includes(title, url)
        /\ ~Includes(title, DomainPart(url))
        /\ Len(title) >= 3 /\ SubSeq(title, 1, 3) = prefix
        /\ ~(Len(title) >= 6 /\ SubSeq(title, 4, 6) = prefix)

\* C5: every Jira title that is replied or cached for a URL with an issue key holds
\* neither the request URL nor its domain part, and begins with "<KEY>: " exactly once.
C5_JiraTitlesWellFormed ==
    /\ (HasReply(out) /\ TheReply(out).svc = "jira"
          /\ extractIssueKeyFromUrl(TheReply(out).url) # Null)
         => WellFormedJiraTitle(TheReply(out).title, TheReply(out).url)
    /\ \A u \in JiraUrls :
         (extractIssueKeyFromUrl(u) # Null /\ titleCache[u] # Absent)
           => WellFormedJiraTitle(titleCache[u].title, u)

\* C7: a request with forceRefresh = true for a URL with an extractable key or id
\* issues a fetch whatever the cache holds, and when its resolution has finished the
\* cache entry of the URL is the new result.
C7_ForceRefreshOverwrites ==
    /\ ( /\ IsRequest(out) /\ Head(out).force
         /\ IF Head(out).svc = "jira"
            THEN extractIssueKeyFromUrl(Head(out).url) # Null
            ELSE extractAsanaTaskIdFromUrl(Head(out).url) # Null )
         => Fetches(out) # << >>
    /\ (HasReply(out) /\ TheReply(out).force /\ TheReply(out).src \notin { "cache", "nokey" })
         => titleCache[TheReply(out).url] = Entry(TheReply(out).title, TheReply(out).issueType)

-----------------------------------------------------------------------------
(* Properties: authentication *)

\* the ways a resolution ends at an authentication wall: HTTP 401/403, a redirect
\* to the login page, login markers in the page
AuthWallSrcs == { "api:auth", "html:auth", "html:redirect", "html:login" }

\* C8: when a resolution of url that met an authentication wall replies, the pending
\* map of its service holds a retry callback under url.
C8_AuthWallRegistersRetry ==
    (HasReply(out) /\ TheReply(out).src \in AuthWallSrcs)
        => MapHas(authStatus[TheReply(out).svc].pendingTasks, TheReply(out).url)

\* C9: for each service, an authentication tab is opened only if the last one of
\* that service was opened 30 seconds ago or earlier.
C9_OneAuthTabPerWindow ==
    [][ \A i \in 1..Len(out') :
          (out'[i].e = "tab" /\ tabLog[out'[i].svc] # -1)
            => now' - tabLog[out'[i].svc] >= AuthWindowMs ]_vars

\* C10: when a sign-in signal fires for a service, the pending map of the service is
\* cleared before the first callback runs, every callback that was in the map is
\* invoked exactly once (each arms its retry timer once), and the map is empty when
\* retryPendingTasks has returned.
C10_SignalDrainsPendingMap ==
    [][ \A tabUrl \in TabUrls :
          (SignalFor(tabUrl) # "" /\ TabUpdated(tabUrl))
            => LET service == SignalFor(tabUrl)
                   tasks == authStatus[service].pendingTasks
                   calls == SelectSeq(out', LAMBDA x : x.e = "callback")
               IN  /\ out' # << >> /\ Head(out').e = "clear"
                   /\ Len(calls) = Len(tasks)
                   /\ \A i \in 1..Len(tasks) :
                        /\ calls[i].url = tasks[i].url
                        /\ CopiesIn(Timer("retry", tasks[i].url, tasks[i].taskId), timers')
                             = CopiesIn(Timer("retry", tasks[i].url, tasks[i].taskId), timers) + 1
                   /\ authStatus'[service].pendingTasks = << >> ]_vars

\* C10, its case: a signal has just drained a map that held two callbacks
C10_TwoCallbacksDrained ==
    /\ out # << >> /\ Head(out).e = "clear"
    /\ Len(SelectSeq(out, LAMBDA x : x.e = "callback")) = 2
    /\ authStatus["asana"].pendingTasks = << >>

-----------------------------------------------------------------------------
(* Properties: the fallback *)

\* the ways a resolution ends with every tier failed: a fetch that threw, a status
\* that is not ok, an authentication wall, a page without a title
FailedSrcs ==
    { "api:auth", "html:error", "html:status", "html:auth", "html:redirect",
      "html:login", "html:shorttitle", "html:notitle" }

\* the deterministic fallback for the URL of reply r
FallbackTitleFor(r) ==
    IF r.svc = "jira" THEN JiraFallbackTitle(extractIssueKeyFromUrl(r.url))
    ELSE AsanaFallbackTitle(extractAsanaTaskIdFromUrl(r.url))

\* a failed resolution replied its fallback and left it in the cache; detected tells
\* whether a Jira page that was fetched but had no title may carry the item type
\* found in the page
FailedReplyIsFallback(r, cache, detected) ==
    /\ r.title = FallbackTitleFor(r)
    /\ r.issueType = (IF r.svc = "asana" THEN "AsanaTask"
                      ELSE IF detected /\ r.src = "html:notitle" THEN r.issueType
                      ELSE "Unknown")
    /\ cache[r.url] = Entry(r.title, r.issueType)

\* the request that follows a failed resolution of the same URL, with
\* forceRefresh = false, issues no fetch
NextRequestNotFetched ==
    (HasReply(out) /\ TheReply(out).src \in FailedSrcs
       /\ IsRequest(out') /\ Head(out').url = TheReply(out).url /\ ~Head(out').force)
      => Fetches(out') = << >>

-----------------------------------------------------------------------------
(* extractAsanaTaskIdFromUrl run on its own *)

\* the pieces Asana URLs are made of after the host
TaskIdUrlToks == { "/", "/item/", "/task/", "/f", "?q", "0", "123", "456789", "list" }

\* no two runs of digits are written next to each other, where they would be one run
TaskIdUrls ==
    { url \in { << "https://", "app.asana.com" >> \o segs : segs \in SeqsUpTo(TaskIdUrlToks, MaxSegs) } :
        \A i \in 1..(Len(url) - 1) : ~(url[i] \in DigitToks /\ url[i + 1] \in DigitToks) }

InitExtractAsanaTaskId ==
    /\ Background
    /\ fnArg \in TaskIdUrls
    /\ fnRes = Pending
    /\ NoPage

ExtractAsanaTaskId ==
    /\ fnRes = Pending
    /\ fnRes' = extractAsanaTaskIdFromUrl(fnArg)
    /\ UNCHANGED << titleCache, authStatus, now, inflight, timers, out, last, tabLog, nReq, nSig, fnArg >>
    /\ UNCHANGED pageVars

SpecExtractAsanaTaskId == InitExtractAsanaTaskId /\ [][ExtractAsanaTaskId]_vars

\* pieces a title is put together from
MaxPieces == 3

\* what a title that reaches cleanTitle is made of: the issue key, blanks, colons,
\* words, the URL and the URL without its protocol
TitlePieces ==
    { << "ABC-1" >>, << " " >>, << ":" >>, << "Fix login bug" >>, JB, DomainPart(JB) }

RECURSIVE Flatten(_)
Flatten(ps) == IF ps = << >> THEN << >> ELSE Head(ps) \o Flatten(Tail(ps))

\* the arguments of cleanTitle: << title, url, issueKey >>
CleanTitleArgs ==
    { << Flatten(ps), url, key >> :
        ps \in SeqsUpTo(TitlePieces, MaxPieces), url \in { JB, JN }, key \in { << "ABC-1" >>, Null } }

InitCleanTitle ==
    /\ Background
    /\ fnArg \in CleanTitleArgs
    /\ fnRes = Pending
    /\ NoPage

\* cleanTitle(title, url, issueKey) is called
CleanTitle ==
    /\ fnRes = Pending
    /\ fnRes' = cleanTitle(fnArg[1], fnArg[2], fnArg[3])
    /\ UNCHANGED << titleCache, authStatus, now, inflight, timers, out, last, tabLog, nReq, nSig, fnArg >>
    /\ UNCHANGED pageVars

SpecCleanTitle == InitCleanTitle /\ [][CleanTitle]_vars

-----------------------------------------------------------------------------
(* The content script: initialization *)

Platforms == { "google-chat", "asana", "google-sheets", "unknown" }

\* clearAllTimeoutsAndIntervals: the interval window._jiraLinkUpdateInterval names
clearAllTimeoutsAndIntervals(p) ==
    IF p.intervalRef
    THEN [ p EXCEPT !.intervals = @ - 1, !.intervalRef = FALSE ]
    ELSE p

\* a faulty variant of initializeExtension: the listeners already there are kept
initializeExtensionKeepsListeners(p) ==
    IF p.initialized \/ p.platform = "unknown" THEN p
    ELSE LET cleared == clearAllTimeoutsAndIntervals(p)
         IN  [ cleared EXCEPT !.listeners = @ \cup { "capture" },
                              !.intervals = @ + 1,
                              !.intervalRef = TRUE,
                              !.initialized = TRUE ]

initializeExtension(p) ==
    IF p.initialized THEN p
    ELSE IF p.platform = "unknown" THEN p
    ELSE LET cleared == clearAllTimeoutsAndIntervals(p)
         IN  [ cleared EXCEPT
                 \* removeEventListener in both phases, then addEventListener(.., true)
                 !.listeners = (@ \ { "capture", "bubble" }) \cup { "capture" },
                 !.intervals = @ + 1,
                 !.intervalRef = TRUE,
                 !.initialized = TRUE ]

\* initPasteListeners(document)
initPasteListeners(p) ==
    IF p.docInitialized THEN p
    ELSE [ p EXCEPT !.docInitialized = TRUE,
                    !.listeners = (@ \ { "capture", "bubble" }) \cup { "bubble" } ]

initializeJiraLinkBeautifier(p) ==
    IF p.platform = "unknown" THEN p
    ELSE IF p.initialized THEN p
    ELSE [ initializeExtension(initPasteListeners(p)) EXCEPT !.onMessage = @ + 1 ]

\* the top-level code of the script: lines 2037-2076
ScriptLoad(readyState) ==
    /\ ~page.loaded
    /\ LET first == IF readyState = "loading"
                    THEN [ page EXCEPT !.domHook = TRUE ]
                    ELSE initializeJiraLinkBeautifier(page)
           hooked == [ first EXCEPT !.loadHook = TRUE ]
       IN  page' = [ initializeExtension(hooked) EXCEPT !.loaded = TRUE ]
    /\ did' = << >>
    /\ UNCHANGED << win, pageCache, pendingElements, awaiting, pageNow, nPaste >>
    /\ UNCHANGED backgroundVars
    /\ UNCHANGED << fnArg, fnRes >>

DomContentLoaded ==
    /\ page.loaded /\ page.domHook
    /\ page' = [ initializeJiraLinkBeautifier(page) EXCEPT !.domHook = FALSE ]
    /\ did' = << >>
    /\ UNCHANGED << win, pageCache, pendingElements, awaiting, pageNow, nPaste >>
    /\ UNCHANGED backgroundVars
    /\ UNCHANGED << fnArg, fnRes >>

\* window load: the document is ready by then
WindowLoad ==
    /\ page.loaded /\ page.loadHook /\ ~page.domHook
    /\ page' = [ (IF ~page.initialized THEN initializeJiraLinkBeautifier(page) ELSE page)
                   EXCEPT !.loadHook = FALSE ]
    /\ did' = << >>
    /\ UNCHANGED << win, pageCache, pendingElements, awaiting, pageNow, nPaste >>
    /\ UNCHANGED backgroundVars
    /\ UNCHANGED << fnArg, fnRes >>

-----------------------------------------------------------------------------
(* The content script: what is pasted *)

\* window._jiraLinkEventDedupeWindow
EventDedupeWindow == 100

\* line 578: Date.now() - window._lastPasteTime < 300
SameTextWindow == 300

\* updatePendingLinks: if (attempts >= 5)
MaxAttempts == 5

\* an Asana link with a double quote in it
AQ == AT2 \o << "\"" >>

\* texts on the clipboard: a Jira link, two Asana links, Jira and Asana pages that
\* name no issue and no task, plain words, and a link between words
Hello == << "hello" >>
Words == << "see", " " >> \o JB
PasteTexts == { JB, AT, AQ, JN, AN, Hello, Words }

\* the URLs the page keeps titles for
PageUrls == { JB, AT, AQ }

\* pastedText.replace(/\r?\n/g, '')
Sanitize(text) == SelectSeq(text, LAMBDA t : t # "\n")

\* /^https?:\/\/[^\s]+$/.test(text.trim())
IsOneUrl(text) ==
    LET t == Trim(text)
    IN  /\ Len(t) >= 2 /\ t[1] = "https://"
        /\ \A i \in 1..Len(t) : t[i] \notin { " ", "\n" }

\* JIRA_URL_REGEX.test(text)
isJiraUrl(text) ==
    \E i \in 1..Len(text) :
      /\ text[i] = "https://" /\ i + 3 <= Len(text)
      /\ text[i + 1] \in { "ex.atlassian.net", "app.asana.com" }
      /\ \/ /\ text[i + 2] \in { "/browse/", "/issues/" }
            /\ text[i + 3] \in AnyCaseKeys
            /\ (i + 3 = Len(text) \/ text[i + 4] \in QueryToks \cup { " " })
         \/ \E j \in (i + 2)..(Len(text) - 1) :
              /\ \A k \in (i + 2)..j : text[k] # "\n"
              /\ text[j] = "?selectedIssue="
              /\ text[j + 1] \in AnyCaseKeys
              /\ (j + 1 = Len(text) \/ text[j + 2] \in QueryToks \cup { " " })

\* /https?:\/\/.*jira.*\/|https?:\/\/.*atlassian\.net\//.test(text) ||
\* text.includes('/issues/') || text.includes('/browse/')
probablyJiraUrl(text) ==
    \/ \E i \in 1..(Len(text) - 2) :
         /\ text[i] = "https://"
         /\ \E j \in (i + 1)..(Len(text) - 1) :
              text[j] = "ex.atlassian.net" /\ text[j + 1] \in SlashToks
    \/ \E i \in 1..Len(text) : text[i] \in { "/issues/", "/browse/" }

\* ASANA_URL_REGEX.test(text) || text.includes('app.asana.com')
isAsanaUrl(text) == \E i \in 1..Len(text) : text[i] = "app.asana.com"

\* extractIssueKey of the content script: selectedIssue, then ISSUE_KEY_REGEX, both /i
extractIssueKey(url) ==
    IF SelectedIssueHits(url) # {} THEN << url[Least(SelectedIssueHits(url)) + 1] >>
    ELSE LET hits == { i \in 1..Len(url) : url[i] \in AnyCaseKeys }
         IN  IF hits = {} THEN Null ELSE << url[Least(hits)] >>

\* text.match(/\/item\/(\d+)/), text.match(/\/task\/(\d+)/)
DigitsRightAfter(text, marker) ==
    LET hits == { i \in 1..(Len(text) - 1) : text[i] = marker /\ text[i + 1] \in DigitToks }
    IN  IF hits = {} THEN Null ELSE << text[Least(hits) + 1] >>

\* the largest all-digit part of text.split('/'), the first of the largest
LargestNumericSegment(text) ==
    IF NumericSegments(text) = {} THEN Null
    ELSE LET longest == { i \in NumericSegments(text) :
                            \A j \in NumericSegments(text) : TokLen(text[j]) <= TokLen(text[i]) }
         IN  << text[Least(longest)] >>

\* the task id handlePasteEvent takes from an Asana link: lines 587-650 and 772-812
PastedTaskId(text, platform) ==
    IF DigitsRightAfter(text, "/item/") # Null THEN DigitsRightAfter(text, "/item/")
    ELSE IF DigitsRightAfter(text, "/task/") # Null THEN DigitsRightAfter(text, "/task/")
    ELSE IF TaskIdRegexHits(text) # {} THEN << text[Least(TaskIdRegexHits(text))] >>
    ELSE IF platform = "google-sheets" THEN LargestNumericSegment(text)
    ELSE \* Google Chat: when the last part is "f" or begins with "?", the part before it
         LET n == Len(text)
         IN  IF text[n] = "/f"
             THEN IF (n - 1) \in NumericSegments(text) THEN << text[n - 1] >> ELSE Null
             ELSE IF n > 2 /\ text[n] \in QueryToks /\ text[n - 1] = "/"
             THEN IF (n - 2) \in NumericSegments(text) THEN << text[n - 2] >> ELSE Null
             ELSE LargestNumericSegment(text)

\* title.toLowerCase().includes('redirect')
HasRedirect(title) == \E i \in 1..Len(title) : title[i] \in { "Redirecting", "Fix redirect loop" }

\* one entry of did.  e is "handle" (the event got past the guards against
\* duplicates), "prevent" (preventDefault), "insert" (text put into the
\* page by the script), "native" (the browser's own paste of our execCommand),
\* "send" (chrome.runtime.sendMessage) or "track"; info tells where the text came from
\* or the action of the message; n is the paste event the effect belongs to
PEv(e, url, title, info, n) == [ e |-> e, url |-> url, title |-> title, info |-> info, n |-> n ]

\* a message or a clipboard write whose callback has not run
Job(kind, url, id, tempText, text, n) ==
    [ kind |-> kind, url |-> url, id |-> id, tempText |-> tempText, text |-> text, n |-> n ]

\* `${issueKey}: Loading...` and `Asana Task ${taskId} (loading...)`
JiraTempText(issueKey) == issueKey \o << ":", " ", "Loading..." >>
AsanaTempText(taskId) == << "Asana Task", " " >> \o taskId \o << " ", "(loading...)" >>

\* pendingElements.set(key, ...) with key = `${element.tagName}-${Date.now()}`
RECURSIVE PendingSet(_, _)
PendingSet(m, entry) ==
    IF m = << >> THEN << entry >>
    ELSE IF Head(m).key = entry.key THEN << entry >> \o Tail(m)
    ELSE << Head(m) >> \o PendingSet(Tail(m), entry)

trackElementForTitleUpdate(m, url, tempText, platform, t) ==
    PendingSet(m, [ key |-> t, url |-> Sanitize(url), tempText |-> tempText,
                    attempts |-> 0, platform |-> platform, fetches |-> 0 ])

\* the title an entry of the page's cache gives to a paste on this branch, Null if the
\* branch does not take it
CachedTitle(cache, url, branch) ==
    IF cache[url] = Absent THEN Null
    ELSE IF branch = "jira" THEN cache[url].title
    ELSE IF Falsy(cache[url].title) THEN Null
    ELSE IF branch \in { "asana-chat", "asana-sheets" } /\ HasRedirect(cache[url].title) THEN Null
    ELSE cache[url].title

\* a faulty variant of WithinDedupeWindow: no paste counts as recent
WithinDedupeWindowNever(w, t) == FALSE

\* now - window._jiraLinkLastPasteEventTime < window._jiraLinkEventDedupeWindow
WithinDedupeWindow(w, t) ==
    t - w.lastPasteEventTime < EventDedupeWindow

\* a faulty variant of TakesFromCache: the cache is never looked at
TakesFromCacheNever(cache, url, branch) == FALSE

\* the test of the "already cached" branch of a paste
TakesFromCache(cache, url, branch) ==
    CachedTitle(cache, url, branch) # Null

\* handlePasteEvent(event) for the n-th paste event.  st carries the window's paste
\* state (win), the event's own flags (handled, stopped), the tracked elements, the
\* effects so far (did) and the jobs started (jobs); el is document.activeElement:
\* "editable", "none" (none, or one that cannot be edited), or "jirafield" (Asana's
\* Jira Cloud URL input)
handlePasteEvent(st, cache, platform, text, el, t, n) ==
    LET sane == Sanitize(text)
        single == IsOneUrl(sane)
        isSingleJiraLink == (isJiraUrl(sane) \/ probablyJiraUrl(sane)) /\ single
        isSingleAsanaLink == isAsanaUrl(sane) /\ single
        prevent == << PEv("prevent", sane, << >>, "", n) >>
        marked == [ st EXCEPT !.handled = TRUE, !.win.lastPasteEventTime = t,
                              !.did = @ \o << PEv("handle", sane, << >>, "", n) >> ]
        recorded(x) == [ x EXCEPT !.win.lastPastedText = sane, !.win.lastPasteTime = t,
                                  !.did = @ \o prevent, !.stopped = TRUE ]
        prevented(x) == [ x EXCEPT !.did = @ \o prevent, !.stopped = TRUE ]
        key == extractIssueKey(sane)
        taskId == PastedTaskId(sane, platform)
    IN  IF platform = "unknown" THEN st
        ELSE IF platform = "asana" /\ el = "jirafield" THEN st
        ELSE IF WithinDedupeWindow(st.win, t)
             THEN IF st.win.allowNextPaste
                  THEN [ st EXCEPT !.win.allowNextPaste = FALSE ]
                  ELSE prevented(st)
        ELSE IF st.handled THEN prevented(st)
        ELSE IF Falsy(text) THEN marked
        ELSE IF ~isSingleJiraLink /\ ~isSingleAsanaLink THEN marked
        ELSE IF marked.win.lastPastedText = sane /\ t - marked.win.lastPasteTime < SameTextWindow
             THEN marked
        ELSE IF isAsanaUrl(sane) /\ platform = "google-chat"
             THEN IF taskId = Null THEN marked
                  ELSE IF el = "none" THEN prevented(marked)
                  ELSE IF TakesFromCache(cache, sane, "asana-chat")
                       THEN [ recorded(marked) EXCEPT
                                !.did = @ \o << PEv("insert", sane, cache[sane].title, "cache", n) >> ]
                       ELSE [ recorded(marked) EXCEPT
                                !.did = @ \o << PEv("insert", sane, AsanaTempText(taskId), "temp", n),
                                                PEv("send", sane, << >>, "fetchAsanaTitle", n) >>,
                                !.jobs = @ \o << Job("asana-chat", sane, taskId,
                                                     AsanaTempText(taskId), << >>, n) >> ]
        ELSE IF isSingleAsanaLink /\ platform = "google-sheets"
             THEN IF taskId = Null THEN marked
                  ELSE IF TakesFromCache(cache, sane, "asana-sheets")
                       THEN [ recorded(marked) EXCEPT
                                !.jobs = @ \o << Job("clipboard", sane, taskId, << >>,
                                                     cache[sane].title, n) >> ]
                       ELSE [ recorded(marked) EXCEPT
                                !.did = @ \o << PEv("send", sane, << >>, "fetchAsanaTitle", n) >>,
                                !.jobs = @ \o << Job("asana-sheets", sane, taskId, << >>, << >>, n) >> ]
        ELSE IF isSingleJiraLink /\ platform = "google-sheets"
             THEN IF key = Null THEN marked
                  ELSE IF TakesFromCache(cache, sane, "jira-sheets")
                       THEN [ recorded(marked) EXCEPT
                                !.jobs = @ \o << Job("clipboard", sane, key, << >>,
                                                     cache[sane].title, n) >> ]
                       ELSE [ recorded(marked) EXCEPT
                                !.did = @ \o << PEv("send", sane, << >>, "fetchJiraTitle", n) >>,
                                !.jobs = @ \o << Job("jira-sheets", sane, key, << >>, << >>, n) >> ]
        ELSE IF isJiraUrl(sane) \/ probablyJiraUrl(sane)
             THEN IF key = Null THEN marked
                  ELSE IF el = "none" THEN prevented(marked)
                  ELSE IF TakesFromCache(cache, sane, "jira")
                       THEN [ recorded(marked) EXCEPT
                                !.did = @ \o << PEv("insert", sane, cache[sane].title, "cache", n) >> ]
                       ELSE IF platform = "asana"
                       THEN [ recorded(marked) EXCEPT
                                !.did = @ \o << PEv("insert", sane, key, "key", n),
                                                PEv("track", sane, key, "", n),
                                                PEv("send", sane, << >>, "fetchJiraTitle", n) >>,
                                !.pending = trackElementForTitleUpdate(@, sane, key, platform, t),
                                !.jobs = @ \o << Job("jira", sane, key, JiraTempText(key), << >>, n) >> ]
                       ELSE [ recorded(marked) EXCEPT
                                !.did = @ \o << PEv("insert", sane, JiraTempText(key), "temp", n),
                                                PEv("send", sane, << >>, "fetchJiraTitle", n) >>,
                                !.jobs = @ \o << Job("jira", sane, key, JiraTempText(key), << >>, n) >> ]
        ELSE marked

\* a paste event sent through the document: the listener of the capture phase, then,
\* unless propagation was stopped, the one of the bubble phase
Dispatch(w, pending, cache, p, text, el, t, n) ==
    LET st0 == [ win |-> w, handled |-> FALSE, stopped |-> FALSE, pending |-> pending,
                 did |-> << >>, jobs |-> << >>, calls |-> 0 ]
        st1 == IF "capture" \in p.listeners
               THEN [ handlePasteEvent(st0, cache, p.platform, text, el, t, n)
                        EXCEPT !.calls = @ + 1 ]
               ELSE st0
    IN  IF "bubble" \in p.listeners /\ ~st1.stopped
        THEN [ handlePasteEvent(st1, cache, p.platform, text, el, t, n) EXCEPT !.calls = @ + 1 ]
        ELSE st1

RECURSIVE SeqToBag(_)
SeqToBag(q) == IF q = << >> THEN EmptyBag ELSE SetToBag({ Head(q) }) (+) SeqToBag(Tail(q))

-----------------------------------------------------------------------------
(* The content script: its steps *)

\* paste events
MaxPastes == 2

\* messages of updatePendingLinks the background has not answered yet
MaxUnanswered == 2

\* the page's clock
PageStartTime == 1000
PageTickMs == 150
MaxPageTime == 1300

NoResponse == [ title |-> Null, issueType |-> "<none>" ]

\* what the background answers to a message of the page
JiraAnswers == { NoResponse, Entry(<< "ABC-1", ":", " ", "Fix login bug" >>, "Bug") }
AsanaAnswers == { NoResponse, Entry(<< "Ship v2" >>, "AsanaTask") }
AnswersTo(job) ==
    IF job.kind \in { "asana-chat", "asana-sheets" } THEN AsanaAnswers ELSE JiraAnswers

\* the titleUpdated messages of the background
PushedUrls == { AT, AQ }
PushedTitles == { << "Fix redirect loop" >> }

InitContent ==
    /\ Background
    /\ fnArg = << >>
    /\ fnRes = Pending
    /\ page \in { PageAtStart(pf) : pf \in Platforms }
    /\ win = WinAtStart
    /\ pageCache = [ u \in PageUrls |-> Absent ]
    /\ pendingElements = << >>
    /\ awaiting = EmptyBag
    /\ pageNow = PageStartTime
    /\ did = << >>
    /\ nPaste = 0

\* the user pastes text while el has the focus
Paste(text, el) ==
    /\ nPaste < MaxPastes
    /\ LET r == Dispatch(win, pendingElements, pageCache, page, text, el, pageNow, nPaste + 1)
       IN  /\ win' = r.win
           /\ pendingElements' = r.pending
           /\ awaiting' = awaiting (+) SeqToBag(r.jobs)
           /\ did' = r.did
    /\ nPaste' = nPaste + 1
    /\ UNCHANGED << page, pageCache, pageNow >>
    /\ UNCHANGED backgroundVars
    /\ UNCHANGED << fnArg, fnRes >>

\* the callback of chrome.runtime.sendMessage runs with the background's response;
\* ok tells whether the link put in at the paste is found and replaced
MessageAnswered(job, response, ok) ==
    /\ job.kind \in { "asana-chat", "asana-sheets", "jira-sheets", "jira", "pending" }
    /\ LET title == response.title
           good == ~Falsy(title) /\ (job.kind \in { "asana-chat", "asana-sheets" } => ~HasRedirect(title))
           insert(text) == << PEv("insert", job.url, text, "response", job.n) >>
           clipboard(text) == SetToBag({ Job("clipboard", job.url, job.id, << >>, text, job.n) })
           track == trackElementForTitleUpdate(pendingElements, job.url, job.tempText,
                                               page.platform, pageNow)
           rest == awaiting (-) SetToBag({ job })
       IN  CASE job.kind = "asana-chat" ->
                  /\ pageCache' = IF good THEN [ pageCache EXCEPT ![job.url] = Entry(title, "AsanaTask") ]
                                  ELSE IF ~Falsy(title)
                                  THEN [ pageCache EXCEPT ![job.url] =
                                           Entry(AsanaFallbackTitle(job.id), "AsanaTask") ]
                                  ELSE pageCache
                  /\ pendingElements' = IF good /\ ~ok THEN track ELSE pendingElements
                  /\ did' = IF good /\ ok THEN insert(title)
                            ELSE IF good THEN << PEv("track", job.url, job.tempText, "", job.n) >>
                            ELSE IF ~Falsy(title) THEN insert(AsanaFallbackTitle(job.id))
                            ELSE << >>
                  /\ awaiting' = rest
             [] job.kind = "asana-sheets" ->
                  /\ pageCache' = IF good THEN [ pageCache EXCEPT ![job.url] = Entry(title, "AsanaTask") ]
                                  ELSE pageCache
                  /\ awaiting' = rest (+) clipboard(IF good THEN title ELSE AsanaFallbackTitle(job.id))
                  /\ did' = << >>
                  /\ UNCHANGED pendingElements
             [] job.kind = "jira-sheets" ->
                  /\ pageCache' = IF good
                                  THEN [ pageCache EXCEPT ![job.url] =
                                           Entry(title, IF response.issueType = "" THEN "Unknown"
                                                        ELSE response.issueType) ]
                                  ELSE pageCache
                  /\ awaiting' = rest (+) clipboard(IF good THEN title ELSE job.id)
                  /\ did' = << >>
                  /\ UNCHANGED pendingElements
             [] job.kind = "jira" ->
                  /\ pageCache' = IF good THEN [ pageCache EXCEPT ![job.url] = Entry(title, response.issueType) ]
                                  ELSE pageCache
                  /\ pendingElements' = IF good /\ ~ok THEN track ELSE pendingElements
                  /\ did' = IF good /\ ok THEN insert(title)
                            ELSE IF good THEN << PEv("track", job.url, job.tempText, "", job.n) >>
                            ELSE << >>
                  /\ awaiting' = rest
             [] job.kind = "pending" ->
                  /\ pageCache' = IF good /\ title # job.tempText
                                  THEN [ pageCache EXCEPT ![job.url] = Entry(title, response.issueType) ]
                                  ELSE pageCache
                  /\ did' = << >>
                  /\ awaiting' = rest
                  /\ UNCHANGED pendingElements
    /\ UNCHANGED << page, win, pageNow, nPaste >>
    /\ UNCHANGED backgroundVars
    /\ UNCHANGED << fnArg, fnRes >>

\* `=HYPERLINK("${url}", "${title}")`
Formula(url, title) == << "=HYPERLINK(" >> \o url \o << "," >> \o title \o << ")" >>

\* pasteIntoSheets / pasteJiraIntoSheets after the text went to the clipboard.  how is
\* "paste" (execCommand('paste') worked and fired a paste event), "failed" (it
\* returned false) or "direct" (no clipboard: insertTextIntoGoogleSheets)
SheetsPaste(job, how) ==
    /\ job.kind = "clipboard"
    /\ awaiting' = awaiting (-) SetToBag({ job })
    /\ LET text == Formula(job.url, job.text)
           allowed == [ win EXCEPT !.allowNextPaste = TRUE ]
           r == Dispatch(allowed, pendingElements, pageCache, page, text, "editable", pageNow, job.n)
           stopped == \E i \in 1..Len(r.did) : r.did[i].e = "prevent"
       IN  CASE how = "paste" ->
                  /\ win' = r.win
                  /\ pendingElements' = r.pending
                  /\ did' = r.did \o (IF stopped THEN << >>
                                      ELSE << PEv("native", job.url, job.text, "formula", job.n) >>)
             [] how = "failed" ->
                  /\ win' = [ win EXCEPT !.allowNextPaste = FALSE ]
                  /\ did' = << PEv("insert", job.url, job.text, "formula", job.n) >>
                  /\ UNCHANGED pendingElements
             [] how = "direct" ->
                  /\ did' = << PEv("insert", job.url, job.text, "formula", job.n) >>
                  /\ UNCHANGED << win, pendingElements >>
    /\ UNCHANGED << page, pageCache, pageNow, nPaste >>
    /\ UNCHANGED backgroundVars
    /\ UNCHANGED << fnArg, fnRes >>

\* a faulty variant of PendingStep: the attempts are not counted
PendingStepForgetsAttempts(data, cache, ok) ==
    IF cache[data.url] # Absent /\ ~Falsy(cache[data.url].title) /\ cache[data.url].title # data.tempText
    THEN [ keep |-> ~ok, data |-> data, send |-> FALSE ]
    ELSE [ keep |-> TRUE, data |-> [ data EXCEPT !.fetches = @ + 1 ], send |-> TRUE ]

\* updatePendingLinks for one entry: whether it stays, what it becomes, and whether a
\* fetchJiraTitle message is sent for it
PendingStep(data, cache, ok) ==
    IF Falsy(data.url) THEN [ keep |-> FALSE, data |-> data, send |-> FALSE ]
    ELSE IF data.attempts >= MaxAttempts THEN [ keep |-> FALSE, data |-> data, send |-> FALSE ]
    ELSE IF cache[data.url] # Absent /\ ~Falsy(cache[data.url].title)
              /\ cache[data.url].title # data.tempText
         THEN IF ok THEN [ keep |-> FALSE, data |-> data, send |-> FALSE ]
              ELSE [ keep |-> TRUE, data |-> [ data EXCEPT !.attempts = @ + 1 ], send |-> FALSE ]
    ELSE [ keep |-> TRUE,
           data |-> [ data EXCEPT !.attempts = @ + 1, !.fetches = @ + 1 ],
           send |-> TRUE ]

RECURSIVE PendingAfter(_, _, _)
PendingAfter(m, cache, ok) ==
    IF m = << >> THEN << >>
    ELSE LET r == PendingStep(Head(m), cache, ok)
         IN  (IF r.keep THEN << r.data >> ELSE << >>) \o PendingAfter(Tail(m), cache, ok)

RECURSIVE PendingSends(_, _, _)
PendingSends(m, cache, ok) ==
    IF m = << >> THEN << >>
    ELSE (IF PendingStep(Head(m), cache, ok).send
          THEN << Job("pending", Head(m).url, Null, Head(m).tempText, << >>, 0) >> ELSE << >>)
         \o PendingSends(Tail(m), cache, ok)

\* the jobs of the kinds in the bag
Unanswered(bag, kinds) ==
    BagCardinality([ j \in { x \in BagToSet(bag) : x.kind \in kinds } |-> bag[j] ])

\* setInterval(updatePendingLinks, 250) fires; ok tells whether the links are found
\* and replaced
UpdatePendingLinks(ok) ==
    /\ page.intervals > 0
    /\ pendingElements # << >>
    /\ Unanswered(awaiting, { "pending" }) + Len(PendingSends(pendingElements, pageCache, ok))
         <= MaxUnanswered
    /\ pendingElements' = PendingAfter(pendingElements, pageCache, ok)
    /\ LET jobs == PendingSends(pendingElements, pageCache, ok)
       IN  /\ awaiting' = awaiting (+) SeqToBag(jobs)
           /\ did' = [ i \in 1..Len(jobs) |->
                         PEv("send", jobs[i].url, << >>, "fetchJiraTitle", 0) ]
    /\ UNCHANGED << page, win, pageCache, pageNow, nPaste >>
    /\ UNCHANGED backgroundVars
    /\ UNCHANGED << fnArg, fnRes >>

\* document.querySelectorAll(`a[href="${url}"]`) throws on a selector that does not parse
SelectorThrows(url) == \E i \in 1..Len(url) : url[i] = "\""

\* a faulty variant of TitleUpdatedPending: every tracked element is dropped
TitleUpdatedPendingDropsAll(m, url) == << >>

\* the tracked elements after the titleUpdated message for url
TitleUpdatedPending(m, url) ==
    IF SelectorThrows(url) THEN m
    ELSE SelectSeq(m, LAMBDA data : data.url # url)

\* the chrome.runtime.onMessage listener of the page gets titleUpdated
TitleUpdated(url, title, issueType) ==
    /\ page.onMessage > 0
    /\ pageCache' = [ pageCache EXCEPT ![url] = Entry(title, issueType) ]
    /\ pendingElements' = TitleUpdatedPending(pendingElements, url)
    /\ did' = << PEv("titleUpdated", url, title, issueType, 0) >>
    /\ UNCHANGED << page, win, awaiting, pageNow, nPaste >>
    /\ UNCHANGED backgroundVars
    /\ UNCHANGED << fnArg, fnRes >>

PageTick ==
    /\ pageNow < MaxPageTime
    /\ pageNow' = pageNow + PageTickMs
    /\ did' = << >>
    /\ UNCHANGED << page, win, pageCache, pendingElements, awaiting, nPaste >>
    /\ UNCHANGED backgroundVars
    /\ UNCHANGED << fnArg, fnRes >>

NextContent ==
    \/ \E readyState \in { "loading", "complete" } : ScriptLoad(readyState)
    \/ DomContentLoaded
    \/ WindowLoad
    \/ \E text \in PasteTexts, el \in { "editable", "none", "jirafield" } : Paste(text, el)
    \/ \E job \in BagToSet(awaiting), ok \in BOOLEAN :
         \E response \in AnswersTo(job) : MessageAnswered(job, response, ok)
    \/ \E job \in BagToSet(awaiting), how \in { "paste", "failed", "direct" } : SheetsPaste(job, how)
    \/ \E ok \in BOOLEAN : UpdatePendingLinks(ok)
    \/ \E url \in PushedUrls, title \in PushedTitles : TitleUpdated(url, title, "AsanaTask")
    \/ PageTick

SpecContent == InitContent /\ [][NextContent]_vars

\* the callback of a message that updatePendingLinks sent runs in the end
PendingAnswered ==
    \E job \in BagToSet(awaiting) :
        /\ job.kind = "pending"
        /\ \E response \in AnswersTo(job), ok \in BOOLEAN : MessageAnswered(job, response, ok)

\* paste events while the tracked elements are followed to their end
MaxTrackedPastes == 1

\* the steps of the content script, with MaxTrackedPastes paste events
NextTracking ==
    \/ \E readyState \in { "loading", "complete" } : ScriptLoad(readyState)
    \/ DomContentLoaded
    \/ WindowLoad
    \/ \E text \in PasteTexts, el \in { "editable", "none", "jirafield" } :
         nPaste < MaxTrackedPastes /\ Paste(text, el)
    \/ \E job \in BagToSet(awaiting), ok \in BOOLEAN :
         \E response \in AnswersTo(job) : MessageAnswered(job, response, ok)
    \/ \E job \in BagToSet(awaiting), how \in { "paste", "failed", "direct" } : SheetsPaste(job, how)
    \/ \E ok \in BOOLEAN : UpdatePendingLinks(ok)
    \/ \E url \in PushedUrls, title \in PushedTitles : TitleUpdated(url, title, "AsanaTask")
    \/ PageTick

\* the interval keeps firing, and the runtime answers what the interval sent
FairSpecTracking ==
    /\ InitContent /\ [][NextTracking]_vars
    /\ WF_vars(\E ok \in BOOLEAN : UpdatePendingLinks(ok))
    /\ WF_vars(PendingAnswered)

-----------------------------------------------------------------------------
(* Properties: pushes, placeholders, item types *)

\* the titleUpdated pushes of a step
Pushes(evs) == SelectSeq(evs, LAMBDA x : x.e = "push")

\* C11: a titleUpdated push is sent only when the retry (or the tab the user signed
\* in with) has obtained a title: it is never sent by a retry that ended at the
\* authentication wall or in another failure, and never carries "Asana Task <id>".
C11_PushOnlyAfterSuccessfulRetry ==
    \A i \in 1..Len(out) :
      out[i].e = "push"
        => /\ out[i].src \in { "api:title", "html:title", "tab" }
           /\ out[i].title # AsanaFallbackTitle(extractAsanaTaskIdFromUrl(out[i].url))

\* no cache entry of an Asana URL, no reply of a resolution and no push in evs
\* carries a placeholder title
NoPlaceholderKept(cache, evs) ==
    /\ \A u \in AsanaUrls : cache[u] # Absent => ~IsGenericAsanaTitle(cache[u].title)
    /\ \A i \in 1..Len(evs) :
         (evs[i].svc = "asana" /\ (evs[i].e = "push" \/ (evs[i].e = "reply" /\ evs[i].src # "nokey")))
           => ~IsGenericAsanaTitle(evs[i].title)

\* C12: an Asana title that is exactly "Asana", "Asana Task", "Asana Project" or
\* "Redirecting" is never cached and never replied or pushed by a resolution, on the
\* request path and on the retry path; when the page tier comes back with such a
\* title the cache entry of the URL becomes "Asana Task <id>".
C12_PlaceholderReplaced ==
    [][ /\ NoPlaceholderKept(titleCache', out')
        /\ \A r \in BagToSet(inflight), resp \in AsanaHtmlResponses :
             (AsanaHtmlResponse(r, resp) /\ IsGenericAsanaTitle(AsanaHtmlResult(resp).title))
               => titleCache'[r.url] = Entry(AsanaFallbackTitle(r.taskId), "AsanaTask") ]_vars

\* C12, its case: a retry came back with a placeholder title and the cache holds
\* "Asana Task <id>" for its URL
C12_RetryGotPlaceholder ==
    \E i \in 1..Len(out) :
      /\ out[i].e = "error"
      /\ titleCache[out[i].url]
           = Entry(AsanaFallbackTitle(extractAsanaTaskIdFromUrl(out[i].url)), "AsanaTask")

\* C13: when the page of a Jira issue comes back with a <title> that is "Issue
\* navigator", "Dashboard", "Issues" or holds "Issue Search", the resolution replies
\* "<KEY>: Jira Issue" and that title, not the generic one, is what the cache holds
\* under the URL and under its normalized form.
C13_GenericJiraTitleNotCached ==
    [][ \A r \in BagToSet(inflight), resp \in JiraHtmlResponses :
          ( /\ JiraHtmlResponse(r, resp)
            /\ IsOk(resp)
            /\ TitleMatch(resp.body.titleTag).matched
            /\ IsGenericJiraTitle(TitleMatch(resp.body.titleTag).pageTitle) )
            => LET fallback == JiraFallbackTitle(extractIssueKeyFromUrl(r.url))
               IN  /\ HasReply(out') /\ TheReply(out').title = fallback
                   /\ titleCache'[r.url].title = fallback
                   /\ titleCache'[normalizeJiraUrl(r.url)].title = fallback ]_vars

\* C13, its case: a resolution ended on a generic page title and the cache holds the
\* fallback
C13_GenericPageSeen ==
    /\ HasReply(out)
    /\ TheReply(out).src = "html:generic"
    /\ titleCache[TheReply(out).url].title
         = JiraFallbackTitle(extractIssueKeyFromUrl(TheReply(out).url))

-----------------------------------------------------------------------------
(* Properties: requests and replies *)

\* no issue key (Jira) or task id (Asana) can be extracted from the URL of request ev
Keyless(ev) ==
    IF ev.svc = "jira" THEN extractIssueKeyFromUrl(ev.url) = Null
    ELSE extractAsanaTaskIdFromUrl(ev.url) = Null

\* C14: a request for a URL without an issue key or task id is replied a generic
\* fallback, leaves no cache entry for the URL, issues no fetch and registers no
\* retry callback.
C14_KeylessNotCached ==
    (IsRequest(out) /\ Keyless(Head(out)))
      => /\ HasReply(out)
         /\ TheReply(out).title \in { << "Jira Issue" >>, << "Asana Task" >> }
         /\ titleCache[Head(out).url] = Absent
         /\ Fetches(out) = << >>
         /\ ~MapHas(authStatus[Head(out).svc].pendingTasks, Head(out).url)

\* C15: a request gets its reply callback called exactly once, with a title that is
\* not empty: the step that handles a message either issues a fetch or replies, and
\* the step that ends a resolution replies once.
C15_ExactlyOneReply ==
    /\ (IsRequest(out) /\ Fetches(out) = << >>) => HasReply(out)
    /\ HasReply(out) => Len(Replies(out)) = 1
    /\ \A i \in 1..Len(out) : out[i].e = "reply" => ~Falsy(out[i].title)

\* C16: every Asana result, in a reply, in a push and in the cache entry of an Asana
\* URL, has item type "AsanaTask".
C16_AsanaItemType ==
    /\ \A i \in 1..Len(out) :
         (out[i].svc = "asana" /\ out[i].e \in { "reply", "push" })
           => out[i].issueType = "AsanaTask"
    /\ \A u \in AsanaUrls : titleCache[u] # Absent => titleCache[u].issueType = "AsanaTask"

\* C17: after a Jira URL u with /browse/ or /issues/ has been resolved, the next
\* request with forceRefresh = false for u, for its normalized form or for a URL that
\* differs from u in the query string only finds a cache entry and issues no fetch.
C17_NormalizedCacheHit ==
    [][ ( /\ last.tier \in { "api", "html", "fallback" }
          /\ (Includes(last.url, << "/browse/" >>) \/ Includes(last.url, << "/issues/" >>))
          /\ IsRequest(out')
          /\ Head(out').svc = "jira"
          /\ ~Head(out').force
          /\ normalizeJiraUrl(Head(out').url) = normalizeJiraUrl(last.url) )
        => /\ Head(out').hit
           /\ Fetches(out') = << >>
           /\ HasReply(out') ]_vars

-----------------------------------------------------------------------------
(* Properties: concurrent resolutions, order of the tiers *)

\* some resolution of url is waiting for a fetch in bag b
InFlight(b, url) == \E r \in BagToSet(b) : r.url = url

\* C18: a request for an uncached URL that is already being resolved issues its own
\* fetch, and when the second of two such resolutions has finished, the cache entry
\* of the URL is the result of that resolution, the one processed last.
C18_LastResponseWinsCache ==
    [][ /\ ( /\ IsRequest(out') /\ ~Keyless(Head(out')) /\ ~Head(out').hit
             /\ InFlight(inflight, Head(out').url) )
           => Fetches(out') # << >>
        /\ ( /\ HasReply(out')
             /\ TheReply(out').src \notin { "cache", "nokey" }
             /\ ~TheReply(out').force
             /\ last.url = TheReply(out').url
             /\ last.tier \in { "api", "html", "fallback" }
             /\ ~InFlight(inflight', TheReply(out').url) )
           => titleCache'[TheReply(out').url]
                = Entry(TheReply(out').title, TheReply(out').issueType) ]_vars

\* the fetches of the page tier in evs
HtmlFetches(evs) == SelectSeq(evs, LAMBDA x : x.e = "fetch" /\ x.title = << "html" >>)

\* C19: the tiers of a resolution run in order.  A step that starts a resolution (a
\* message, a retry timer) issues the API fetch.  A page fetch is issued only by the
\* step that processes the API answer of the same resolution, which then replies
\* nothing and writes nothing to the cache.  An API answer that carries a title
\* (Jira: a summary, Asana: a name) ends the resolution without a page fetch.
C19_TiersInOrder ==
    [][ /\ (IsRequest(out') \/ \E tm \in BagToSet(timers) : RetryTimerFires(tm))
             => HtmlFetches(out') = << >>
        /\ HtmlFetches(out') # << >>
             => /\ \E r \in BagToSet(inflight) :
                     /\ r.pc = "api"
                     /\ inflight' = (inflight (-) SetToBag({ r }))
                                      (+) SetToBag({ [ r EXCEPT !.pc = "html" ] })
                /\ Len(out') = 1
                /\ titleCache' = titleCache
        /\ \A r \in BagToSet(inflight) :
             /\ \A resp \in JiraApiResponses :
                  (JiraApiResponse(r, resp) /\ IsOk(resp) /\ ~Falsy(resp.body.summary))
                    => HtmlFetches(out') = << >> /\ inflight' = inflight (-) SetToBag({ r })
             /\ \A resp \in AsanaApiResponses :
                  (AsanaApiResponse(r, resp) /\ IsOk(resp) /\ ~Falsy(resp.name))
                    => HtmlFetches(out') = << >> /\ inflight' = inflight (-) SetToBag({ r }) ]_vars

\* C19, its case: the API answer of a resolution carried no title and its page fetch
\* has just been issued
C19_PageFetchAfterApi ==
    /\ HtmlFetches(out) # << >>
    /\ \E r \in BagToSet(inflight) : r.pc = "html" /\ r.svc = "jira"

-----------------------------------------------------------------------------
(* Properties: extractIssueKeyFromUrl *)

\* the positions in url of a piece that fits pattern
FirstWhere(url, Fits(_)) ==
    LET at == { i \in 1..Len(url) : Fits(i) }
    IN  IF at = {} THEN 0 ELSE CHOOSE i \in at : \A j \in at : i <= j

\* the key of url by the first of the three rules that matches, where the query rule
\* takes the keys of paramKeys and the other two rules upper-case keys
KeyByFirstRule(url, paramKeys) ==
    LET n == Len(url)
        param == FirstWhere(url, LAMBDA i :
                   i < n /\ url[i] = "?selectedIssue=" /\ url[i + 1] \in paramKeys)
        path == FirstWhere(url, LAMBDA i :
                  /\ i < n /\ url[i] \in { "/browse/", "/issues/" } /\ url[i + 1] \in UpperKeys
                  /\ (i + 1 = n \/ url[i + 2] \in { "/", "/browse/", "/issues/",
                                                    "?selectedIssue=", "?x=1" }))
        bare == FirstWhere(url, LAMBDA i : url[i] \in UpperKeys)
    IN  IF param # 0 THEN << url[param + 1] >>
        ELSE IF path # 0 THEN << url[path + 1] >>
        ELSE IF bare # 0 THEN << url[bare] >>
        ELSE Null

\* C20 as stated, a key being upper-case letters, a dash and digits in all three rules:
\* extractIssueKeyFromUrl returns the key found by the first rule that matches
\* (selectedIssue in the query, then the path segment after /browse/ or /issues/, then
\* the first LETTERS-DIGITS anywhere) and no key only if no rule matches
C20_FirstMatchingRuleUpperCase ==
    fnRes # Pending => fnRes = KeyByFirstRule(fnArg, UpperKeys)

\* C20: extractIssueKeyFromUrl returns the key found by the first rule that matches:
\* the key after "selectedIssue=" in the query (the one rule that takes letters in
\* either case, and returns them as written), else the upper-case key that is the
\* path segment after /browse/ or /issues/, else the first upper-case LETTERS-DIGITS
\* anywhere; it returns no key only if no rule matches.  The URL
\* .../issues/?selectedIssue=XYZ-9 gives XYZ-9.
C20_FirstMatchingRule ==
    fnRes # Pending =>
        /\ fnRes = KeyByFirstRule(fnArg, AnyCaseKeys)
        /\ fnArg = << "https://", "ex.atlassian.net", "/issues/", "?selectedIssue=", "XYZ-9" >>
             => fnRes = << "XYZ-9" >>

\* C20, its case: the query and the path name different issues and the function has
\* returned the one of the query
C20_QueryBeforePath ==
    /\ Includes(fnArg, << "/browse/", "ABC-1", "?selectedIssue=", "XYZ-9" >>)
    /\ fnRes = << "XYZ-9" >>

-----------------------------------------------------------------------------
(* Properties: extractAsanaTaskIdFromUrl *)

\* the id of url by the first of the four rules that matches
IdByFirstRule(url) ==
    LET n == Len(url)
        item == FirstWhere(url, LAMBDA i : i < n /\ url[i] = "/item/" /\ url[i + 1] \in DigitToks)
        task == FirstWhere(url, LAMBDA i : i < n /\ url[i] = "/task/" /\ url[i + 1] \in DigitToks)
        generic == FirstWhere(url, LAMBDA i :
                     /\ 1 < i /\ url[i] \in DigitToks
                     /\ url[i - 1] \in { "/", "/item/", "/task/", "https://" }
                     /\ (i = n \/ url[i + 1] \in { "/f", "?q" }))
        segment(i) == /\ 1 < i /\ url[i] \in DigitToks
                      /\ url[i - 1] \in { "/", "/item/", "/task/", "https://" }
                      /\ (i = n \/ url[i + 1] \in { "/", "/item/", "/task/", "/f" })
        longest == FirstWhere(url, LAMBDA i :
                     segment(i) /\ \A j \in 1..n : segment(j) => TokLen(url[j]) <= TokLen(url[i]))
    IN  IF item # 0 THEN << url[item + 1] >>
        ELSE IF task # 0 THEN << url[task + 1] >>
        ELSE IF generic # 0 THEN << url[generic] >>
        ELSE IF longest # 0 THEN << url[longest] >>
        ELSE Null

\* C21: extractAsanaTaskIdFromUrl returns the id found by the first rule that matches:
\* the digits of an /item/<digits> segment, else the digits of a /task/<digits> segment,
\* else the digits of the generic pattern, else the longest all-digit segment between
\* slashes, the first of several of the same length; it returns no id only if no rule
\* matches.  The URL https://app.asana.com/0/123/456789/f gives 456789.
C21_FirstMatchingRule ==
    fnRes # Pending =>
        /\ fnRes = IdByFirstRule(fnArg)
        /\ fnArg = AT => fnRes = << "456789" >>

-----------------------------------------------------------------------------
(* Properties: the result of the Jira REST request *)

\* C22: when the REST request of a Jira resolution for a URL with key K succeeds with a
\* non-empty summary S and the issue type name T, the reply is { "K: S", T }
C22_ApiSummaryReplied ==
    [][ \A r \in BagToSet(inflight), resp \in JiraApiResponses :
          ( /\ JiraApiResponse(r, resp)
            /\ IsOk(resp)
            /\ ~Falsy(resp.body.summary)
            /\ resp.body.issuetype # ""
            /\ extractIssueKeyFromUrl(r.url) # Null )
            => /\ HasReply(out')
               /\ TheReply(out').title
                    = extractIssueKeyFromUrl(r.url) \o << ":", " " >> \o resp.body.summary
               /\ TheReply(out').issueType = resp.body.issuetype ]_vars

-----------------------------------------------------------------------------
(* Properties: what a sign-in signal leaves alone *)

\* C23: a sign-in signal for one service changes the authentication state of that
\* service only: the pending map, the authenticated flag and the time of the last
\* attempt of the other service stay as they were, and a Jira signal leaves the title
\* cache as it was
C23_SignalChangesOwnServiceOnly ==
    [][ /\ \A tabUrl \in TabUrls :
             (SignalFor(tabUrl) # "" /\ TabUpdated(tabUrl))
               => /\ out' # << >> /\ Head(out').e = "clear" /\ Head(out').svc = SignalFor(tabUrl)
                  /\ \A s \in DOMAIN authStatus :
                       s # SignalFor(tabUrl) => authStatus'[s] = authStatus[s]
        /\ (out' # << >> /\ Head(out').e = "clear")
             => /\ \A s \in DOMAIN authStatus :
                     s # Head(out').svc => authStatus'[s] = authStatus[s]
                /\ Head(out').svc = "jira" => titleCache' = titleCache ]_vars

\* C23, its case: the Jira signal has been handled while Asana requests wait for a
\* sign-in and the cache holds a title
C23_JiraSignalWhileAsanaWaits ==
    /\ out # << >> /\ Head(out).e = "clear" /\ Head(out).svc = "jira"
    /\ authStatus["jira"].authenticated
    /\ authStatus["asana"].pendingTasks # << >>
    /\ ~authStatus["asana"].authenticated
    /\ \E u \in DOMAIN titleCache : titleCache[u] # Absent

-----------------------------------------------------------------------------
(* Properties: callbacks registered after the sign-in *)

\* C30: a retry callback that is registered in the pending map of Asana when the
\* sign-in signal has already been handled is invoked in the end, whether or not
\* another signal comes: the map does not stay non-empty for ever
C30_LateCallbackInvoked ==
    (authStatus["asana"].authenticated /\ authStatus["asana"].pendingTasks # << >>)
      ~> (authStatus["asana"].pendingTasks = << >>)

-----------------------------------------------------------------------------
(* Properties: pastes in the page *)

\* the entries of evs with e in kinds
Effects(evs, kinds) == SelectSeq(evs, LAMBDA x : x.e \in kinds)

\* C24: when the page's cache holds an entry for the pasted URL, handling the paste
\* sends no fetchJiraTitle or fetchAsanaTitle message, and what it inserts is the
\* title of the entry
C24_CachedPasteSendsNothing ==
    [][ \A text \in PasteTexts, el \in { "editable", "none", "jirafield" } :
          (Paste(text, el) /\ Sanitize(text) \in PageUrls /\ pageCache[Sanitize(text)] # Absent)
            => /\ Effects(did', { "send" }) = << >>
               /\ \A i \in 1..Len(did') :
                    did'[i].e = "insert"
                      => did'[i].info = "cache" /\ did'[i].title = pageCache[Sanitize(text)].title ]_vars

\* the clipboard text is one Jira or Asana link and nothing else
IsSingleLink(text) ==
    /\ IsOneUrl(Sanitize(text))
    /\ isJiraUrl(Sanitize(text)) \/ probablyJiraUrl(Sanitize(text)) \/ isAsanaUrl(Sanitize(text))

\* C25: a paste whose text is not exactly one Jira or Asana link, or a paste on a
\* platform the script does not support, is left to the browser: no preventDefault,
\* nothing inserted, no message sent, whatever was pasted before and however recently
C25_OnlySingleLinksIntercepted ==
    [][ \A text \in PasteTexts, el \in { "editable", "none", "jirafield" } :
          (Paste(text, el) /\ (~IsSingleLink(text) \/ page.platform = "unknown"))
            => Effects(did', { "prevent", "insert", "send" }) = << >> ]_vars

\* the paste of this step put text into the page, sent a message, or started the
\* clipboard write that ends in an insertion
PasteActed ==
    \/ Effects(did', { "insert", "send" }) # << >>
    \/ awaiting' # awaiting

\* C26: no paste is processed twice: a paste event gets past the guards against
\* duplicates once at most, and a paste event that inserts or sends comes 100 ms or
\* more after the last paste event that did (window._lastPasteTime is the time of that
\* one; a step that counts a paste is a paste event)
C26_NoPasteProcessedTwice ==
    [][ nPaste' # nPaste
            => /\ Len(Effects(did', { "handle" })) <= 1
               /\ Len(Effects(did', { "send" })) <= 1
               /\ PasteActed
                    => \/ win.lastPastedText = Null
                       \/ pageNow - win.lastPasteTime >= EventDedupeWindow ]_vars

\* C26, its case: two links were pasted in the same instant; the first was handled,
\* the second was stopped
C26_SecondPasteStopped ==
    /\ nPaste = 2
    /\ win.lastPastedText \in PageUrls /\ win.lastPasteTime = pageNow
    /\ Len(did) = 1 /\ did[1].e = "prevent" /\ did[1].n = 2
    /\ did[1].url \in PageUrls /\ did[1].url # win.lastPastedText

\* the entries that updatePendingLinks deletes in this step
Deleted(ok) ==
    SelectSeq(pendingElements, LAMBDA data : ~PendingStep(data, pageCache, ok).keep)

TrackedForOthers(m, url) == SelectSeq(m, LAMBDA data : data.url # url)

\* C28: when the page has handled titleUpdated(url, title, issueType), its cache holds
\* {title, issueType} for url, no tracked element has that url, and the elements
\* tracked for other URLs are as they were
C28_TitleUpdatedHandled ==
    [][ (did' # << >> /\ did'[1].e = "titleUpdated")
          => LET url == did'[1].url
             IN  /\ pageCache'[url] = Entry(did'[1].title, did'[1].info)
                 /\ \A i \in 1..Len(pendingElements') : pendingElements'[i].url # url
                 /\ TrackedForOthers(pendingElements', url) = TrackedForOthers(pendingElements, url)
      ]_vars

-----------------------------------------------------------------------------
(* Properties: initialization of the page *)

\* C29: whatever entry points have run, a supported page has exactly one
\* handlePasteEvent listener on its document and exactly one updatePendingLinks timer;
\* an unsupported page has neither
C29_InitializedOnce ==
    page.loaded
      => /\ page.platform # "unknown"
              => Cardinality(page.listeners) = 1 /\ page.intervals = 1
         /\ page.platform = "unknown"
              => page.listeners = { } /\ page.intervals = 0

\* C29, its case: the document was ready when the script ran, so
\* initializeJiraLinkBeautifier, the top-level initializeExtension and the load
\* handler have all run on a supported page
C29_AllEntryPointsRan ==
    /\ page.loaded /\ page.platform # "unknown"
    /\ page.docInitialized /\ page.initialized
    /\ ~page.domHook /\ ~page.loadHook
    /\ page.listeners = { "capture" }

-----------------------------------------------------------------------------
(* Properties: authentication tabs and their timestamps *)

\* the ways the page tier fails without an authentication wall: a fetch that threw, a
\* status that is neither ok nor 401/403, a page that holds no title
NoWallVias == { "error", "status", "notitle" }

\* C31: an Asana resolution that fails for a reason other than an authentication wall
\* returns the fallback without opening a tab, without a notification and without
\* adding to the pending map.
C31_NoAuthTabWithoutWall ==
    [][ \A r \in BagToSet(inflight), resp \in AsanaHtmlResponses :
          (AsanaHtmlResponse(r, resp) /\ AsanaHtmlResult(resp).via \in NoWallVias)
            => /\ \A i \in 1..Len(out') : out'[i].e \notin { "tab", "notify" }
               /\ authStatus'["asana"].pendingTasks = authStatus["asana"].pendingTasks ]_vars

\* C33: the lastAuthAttempt of a service changes only in a step that opens an
\* authentication tab for that service.
C33_TimestampOnlyWithTab ==
    [][ \A service \in Services :
          authStatus'[service].lastAuthAttempt # authStatus[service].lastAuthAttempt
            => \E i \in 1..Len(out') : out'[i].e = "tab" /\ out'[i].svc = service ]_vars

-----------------------------------------------------------------------------
(* Properties: the listener of pushes *)

\* C32: on a supported platform, once the script has run and the DOMContentLoaded and
\* load handlers it registered have run, the titleUpdated listener is registered,
\* whatever document.readyState was when the script started.
C32_PushListenerRegistered ==
    (page.loaded /\ page.platform # "unknown" /\ ~page.domHook /\ ~page.loadHook)
      => page.onMessage >= 1

-----------------------------------------------------------------------------
(* Properties: the two scripts side by side *)

\* C34: for every URL, the key that extractIssueKeyFromUrl of the background returns is
\* the key that extractIssueKey of the content script returns.
C34_SameKeyInBothScripts ==
    fnRes # Pending => fnRes = extractIssueKey(fnArg)

\* C35: cleanTitle is idempotent: cleaning a cleaned title with the same URL and key
\* gives the cleaned title again.
C35_CleanTitleIdempotent ==
    fnRes # Pending => cleanTitle(fnRes, fnArg[2], fnArg[3]) = fnRes

-----------------------------------------------------------------------------
(* Properties: what becomes of a paste that was stopped *)

\* C36: a paste event that handlePasteEvent took for a link and stopped with
\* preventDefault puts text into the page in the same step, or has started the
\* message or the clipboard write whose callback puts it there.
C36_PreventedPasteInserts ==
    [][ (/\ nPaste' # nPaste
         /\ Effects(did', { "handle" }) # << >>
         /\ Effects(did', { "prevent" }) # << >>)
          => \/ Effects(did', { "insert" }) # << >>
             \/ awaiting' # awaiting ]_vars

\* C37: window._allowNextPaste is set only while the extension's own
\* execCommand('paste') runs: the paste event that it triggers takes the flag back, so
\* the flag is false whenever a paste of the user can arrive, and no paste of the user
\* uses it up.
C37_AllowFlagNotStale ==
    [][ /\ ~win'.allowNextPaste
        /\ nPaste' # nPaste => ~win.allowNextPaste ]_vars

=============================================================================
